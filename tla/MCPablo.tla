----------------------------- MODULE MCPablo -----------------------------
(* The files that Pablo is started with. *)
EXTENDS Pablo

Line(k, v) == [key |-> k, value |-> v]
Ok(lines) == [open |-> "ok", lines |-> lines]
NoFile == [open |-> "ENOENT", lines |-> <<>>]
Broken == [open |-> "error", lines |-> <<>>]
Entry(n, kind, file) == [name |-> n, kind |-> kind, file |-> file]
Directory(entries) == [open |-> "ok", entries |-> entries]
Etc(settings, directory) == [settings |-> settings, directory |-> directory]

Exec == Line("exec", "absolute")

\* Up to three services in several orders of the directory, with every policy, each after
\* none, any service or one that is not there.
Unit(after, policy) ==
    Ok(<<Exec>> \o (IF after = 0 THEN <<>> ELSE <<Line("after", after)>>)
               \o <<Line("policy", policy)>>)
Units3 == {Unit(a, p) : a \in 0..4, p \in {"once", "respawn"}}
Orders == {<<1, 2, 3>>, <<3, 1, 2>>, <<3, 2, 1>>}
Graphs3 == {Etc(NoFile, Directory([k \in 1..3 |-> Entry(o[k], "service", f[o[k]])])) :
            o \in Orders, f \in [1..3 -> Units3]}

\* One service whose file is any few lines.
Lines == {Line("#", ""), Line("", ""), Line("other", ""), Exec, Line("exec", "relative"),
          Line("after", 1), Line("policy", "once"), Line("policy", "respawn"),
          Line("policy", "other"), Line("arg", "")}
Texts(S, n) == UNION {[1..k -> S] : k \in 0..n}
Singles == {Etc(NoFile, Directory(<<Entry(1, "service", f)>>)) :
            f \in {Ok(t) : t \in Texts(Lines, 3) \cup [1..4 -> {Exec, Line("#", "")}]} \cup {Broken}}

\* Entries that are no services, that do not fit, or that are too many.
Entries == {Entry(1, "service", Ok(<<Exec>>)), Entry(2, "other", Broken),
            Entry(3, "long", Ok(<<Exec>>)), Entry(4, "service", Unit(1, "respawn"))}
Others == {Etc(NoFile, [open |-> "error", entries |-> <<>>]),
           Etc(NoFile, [open |-> "ENOENT", entries |-> <<>>]),
           Etc(NoFile, Directory([k \in 1..4 |-> Entry(k, "service", Ok(<<Exec>>))]))}
          \cup {Etc(NoFile, Directory(SetToSeq(S))) : S \in SUBSET Entries}

\* Settings: every number of a few characters, and pairs of lines over one service.
Digits == {<<d>> : d \in -1..9} \cup {<<d, e>> : d, e \in -1..9}
          \cup {<<1, 2, d>> : d \in -1..9} \cup {<<0, d, e>> : d, e \in {0, 2, 9}}
Numbers == {Etc(Ok(<<Line("restart_limit", n)>>), Directory(<<>>)) : n \in Digits}
Settings == {Line("#", ""), Line("other", <<1>>), Line("restart_limit", <<0>>),
             Line("restart_limit", <<2>>), Line("restart_delay", <<0>>), Line("restart_delay", <<2>>)}
Tuned == {Etc(s, Directory(<<Entry(1, "service", Unit(0, "respawn"))>>)) :
          s \in {Ok(t) : t \in Texts(Settings, 2)} \cup {Broken}}

AllFiles == Graphs3 \cup Singles \cup Others \cup Numbers \cup Tuned
=============================================================================
