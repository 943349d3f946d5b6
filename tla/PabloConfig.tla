--------------------------- MODULE PabloConfig ---------------------------
(***************************************************************************)
(* How Pablo reads its configuration: userland/pablo/src/config.c,         *)
(* service.c, text.c and io.c.                                             *)
(*                                                                         *)
(* A file is a sequence of lines, and a line a key and a value: "#" is the *)
(* key of a line that is empty or a comment, "" the key of one that has no *)
(* key, no value or a value that does not fit, "other" that of any other   *)
(* line.  Names of service files are numbered in the order of strcmp; 0 is *)
(* no name.  A number is the sequence of its characters, -1 for one that   *)
(* is no digit.                                                            *)
(***************************************************************************)
EXTENDS Integers, Sequences, SequencesExt, TLC

CONSTANTS
    DefaultLimit, DefaultDelay,     \* pablo_config_defaults
    FileMax,        \* PABLO_FILE_MAX, in lines
    ServiceMax,     \* PABLO_SERVICE_MAX
    ArgMax,         \* PABLO_ARG_MAX
    UintMax         \* UINT32_MAX

ASSUME ConfigAssumption ==
    /\ DefaultLimit \in Nat /\ DefaultDelay \in Nat /\ UintMax \in Nat \ (0..8)
    /\ FileMax \in Nat \ {0} /\ ServiceMax \in Nat /\ ArgMax \in Nat

-----------------------------------------------------------------------------
(* text.c and io.c. *)

\* Mutant of pablo_parse_unsigned: numbers wrap.
ParseWraps(text) ==
    LET step(n, digit) == IF n < 0 \/ digit < 0 THEN -1 ELSE (n * 10 + digit) % (UintMax + 1)
    IN  FoldLeft(step, 0, text)

\* pablo_parse_unsigned; -1 when it fails.
pablo_parse_unsigned(text) ==
    LET step(n, digit) ==
            IF n < 0 \/ digit < 0 \/ n > (UintMax - digit) \div 10 THEN -1 ELSE n * 10 + digit
    IN  FoldLeft(step, 0, text)

\* pablo_read_file succeeds: there is room for the file and a terminator.
pablo_read_file(file) == file.open = "ok" /\ Len(file.lines) + 1 <= FileMax

-----------------------------------------------------------------------------
(* The settings. *)

SettingsLine(config, line) ==
    LET number == pablo_parse_unsigned(line.value)
    IN  CASE line.key = "#" -> config
          [] line.key = "restart_limit" /\ number >= 0 -> [config EXCEPT !.restart_limit = number]
          [] line.key = "restart_delay" /\ number >= 0 -> [config EXCEPT !.restart_delay = number]
          [] OTHER -> [config EXCEPT !.ok = FALSE]

\* pablo_config_defaults
Defaults == [ok |-> TRUE, services |-> <<>>,
             restart_limit |-> DefaultLimit, restart_delay |-> DefaultDelay]

load_settings(file) ==
    CASE file.open = "ENOENT" -> Defaults
      [] pablo_read_file(file) -> FoldLeft(SettingsLine, Defaults, file.lines)
      [] OTHER -> [Defaults EXCEPT !.ok = FALSE]

-----------------------------------------------------------------------------
(* The services. *)

parse_service_line(service, line) ==
    CASE line.key = "#" -> service
      [] line.key = "exec" -> [service EXCEPT !.path = line.value]
      [] line.key = "after" -> [service EXCEPT !.after = line.value]
      [] line.key = "policy" /\ line.value \in {"once", "respawn"} ->
            [service EXCEPT !.policy = line.value]
      [] line.key = "arg" /\ service.argument_count < ArgMax ->
            [service EXCEPT !.argument_count = @ + 1]
      [] OTHER -> [service EXCEPT !.ok = FALSE]

load_service(name, file) ==
    LET blank == [ok |-> TRUE, name |-> name, path |-> "", after |-> 0, policy |-> "once",
                  argument_count |-> 0]
        read == FoldLeft(parse_service_line, blank, file.lines)
    IN  IF pablo_read_file(file) /\ read.path # "" THEN read ELSE [blank EXCEPT !.ok = FALSE]

\* sort_names, of the entries at the positions found: an entry is placed behind those
\* whose names are not greater.
sort_names(entries, found) ==
    LET upto(j) == {k \in found : \/ entries[k].name < entries[j].name
                                  \/ entries[k].name = entries[j].name /\ k <= j}
    IN  [n \in 1..Cardinality(found) |->
            entries[CHOOSE j \in found : Cardinality(upto(j)) = n]]

IsService(e) == e.kind # "other"

\* load_services adds to the configuration what the directory holds; "long" is the kind
\* of an entry whose name does not fit.
load_services(config, directory) ==
    LET entries == directory.entries
        found == {k \in DOMAIN entries : IsService(entries[k])}
        sorted == sort_names(entries, found)
        loaded == [k \in DOMAIN sorted |-> load_service(sorted[k].name, sorted[k].file)]
    IN  CASE directory.open = "ENOENT" -> config
          [] /\ directory.open = "ok"
             /\ Cardinality(found) <= ServiceMax
             /\ \A k \in found : entries[k].kind = "service"
             /\ \A k \in DOMAIN loaded : loaded[k].ok
             -> [config EXCEPT !.services = loaded]
          [] OTHER -> [config EXCEPT !.ok = FALSE]

-----------------------------------------------------------------------------
(* service.c. *)

\* pablo_service_find and service_index, 0 when there is none.
pablo_service_find(services, name) ==
    LET named == {k \in DOMAIN services : services[k].name = name}
    IN  IF named = {} THEN 0 ELSE Min(named)

\* What visit_dependency returns when it fails.
Refused == <<>>

\* visit_dependency of service x[1] with the states x[2], 1 for a service that it has
\* entered and 2 for one that it has left: the states afterwards, or Refused.
visit_dependency(services) ==
    LET Index == DOMAIN services
        visit[x \in Index \X [Index -> 0..2]] ==
            LET k == x[1]
                d == pablo_service_find(services, services[k].after)
                below == visit[<<d, [x[2] EXCEPT ![k] = 1]>>]
            IN  CASE x[2][k] = 1 -> Refused
                  [] x[2][k] = 2 -> x[2]
                  [] x[2][k] = 0 /\ services[k].after = 0 -> [x[2] EXCEPT ![k] = 2]
                  [] x[2][k] = 0 /\ services[k].after # 0 /\ d = 0 -> Refused
                  [] OTHER -> IF below = Refused THEN Refused ELSE [below EXCEPT ![k] = 2]
    IN  visit

\* The loop over all services: from service x[1] on, with the states x[2].
VisitsAll(services) ==
    LET Index == DOMAIN services
        from[x \in (1..(Len(services) + 1)) \X [Index -> 0..2]] ==
            x[1] \in Index => \E states \in {visit_dependency(services)[x]} :
                                states # Refused /\ from[<<x[1] + 1, states>>]
    IN  from[<<1, [k \in Index |-> 0]>>]

\* Mutant of pablo_service_validate: cycles longer than one are not looked for.
ValidateWithoutVisit(services) ==
    \A k \in DOMAIN services :
        /\ services[k].path = "absolute"
        /\ \A j \in DOMAIN services : j > k => services[j].name # services[k].name
        /\ services[k].after # 0 => /\ services[k].after # services[k].name
                                    /\ pablo_service_find(services, services[k].after) # 0

pablo_service_validate(services) ==
    /\ \A k \in DOMAIN services :
        /\ services[k].path = "absolute"
        /\ \A j \in DOMAIN services : j > k => services[j].name # services[k].name
        /\ services[k].after # 0 => /\ services[k].after # services[k].name
                                    /\ pablo_service_find(services, services[k].after) # 0
    /\ VisitsAll(services)

\* pablo_config_load up to the validation; ok says whether it succeeds.
pablo_config_load(files) ==
    LET settings == load_settings(files.settings)
    IN  IF settings.ok THEN load_services(settings, files.directory) ELSE settings

-----------------------------------------------------------------------------
(* What the files mean, without regard to how they are read. *)

\* The last value that lines give to a key, and the default for one they do not name.
LastValue(lines, key, default) ==
    LET named == {k \in DOMAIN lines : lines[k].key = key}
    IN  IF named = {} THEN default ELSE lines[Max(named)].value

\* The number that digits stand for.
ValueOf(digits) == FoldLeft(LAMBDA n, d : n * 10 + d, 0, digits)

SettingsValid(file) ==
    \/ file.open = "ENOENT"
    \/ /\ pablo_read_file(file)
       /\ \A k \in DOMAIN file.lines :
            \/ file.lines[k].key = "#"
            \/ /\ file.lines[k].key \in {"restart_limit", "restart_delay"}
               /\ \A d \in DOMAIN file.lines[k].value : file.lines[k].value[d] >= 0
               /\ ValueOf(file.lines[k].value) <= UintMax

Setting(file, key, default) ==
    IF file.open = "ENOENT" \/ \A k \in DOMAIN file.lines : file.lines[k].key # key
    THEN default ELSE ValueOf(LastValue(file.lines, key, <<>>))

\* The service that a file describes.
Described(e) ==
    [ok |-> TRUE, name |-> e.name,
     path |-> LastValue(e.file.lines, "exec", ""),
     after |-> LastValue(e.file.lines, "after", 0),
     policy |-> LastValue(e.file.lines, "policy", "once"),
     argument_count |-> Len(SelectSeq(e.file.lines, LAMBDA l : l.key = "arg"))]

Units(directory) ==
    IF directory.open = "ENOENT" THEN {} ELSE
    {directory.entries[k] : k \in {j \in DOMAIN directory.entries : IsService(directory.entries[j])}}

\* Whom a service is started after, over a set of services.
Reaches(units, S) == {u \in units : \E v \in S : Described(v).after = u.name}

DirectoryValid(directory) ==
    LET units == Units(directory)
    IN  /\ directory.open # "error"
        /\ Cardinality(units) <= ServiceMax
        /\ \A u \in units :
            /\ u.kind = "service" /\ pablo_read_file(u.file)
            /\ Described(u).path = "absolute" /\ Described(u).argument_count <= ArgMax
            /\ Described(u).after = 0 \/ Reaches(units, {u}) # {}
            /\ \A k \in DOMAIN u.file.lines :
                /\ u.file.lines[k].key \in {"#", "exec", "after", "policy", "arg"}
                /\ u.file.lines[k].key = "policy" => u.file.lines[k].value \in {"once", "respawn"}
        /\ \A S \in SUBSET units : S # {} => \E u \in S : Reaches(units, {u}) \cap S = {}

\* A configuration says what the files say, with the services in the order of their names.
Says(config, files) ==
    /\ config.restart_limit = Setting(files.settings, "restart_limit", DefaultLimit)
    /\ config.restart_delay = Setting(files.settings, "restart_delay", DefaultDelay)
    /\ \A j, k \in DOMAIN config.services :
        j < k => config.services[j].name < config.services[k].name
    /\ {config.services[k] : k \in DOMAIN config.services} = {Described(u) : u \in Units(files.directory)}
=============================================================================
