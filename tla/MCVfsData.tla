---------------------------- MODULE MCVfsData ----------------------------
EXTENDS VfsData, TLC

Openers == Permutations(File)
=============================================================================
