---------------------------- MODULE ContextLevel ----------------------------
(* What the objects of one context share: its level, and for the maps their *)
(* keys and values.                                                         *)
EXTENDS Naturals

CONSTANTS
  MaxLevel,     \* bound on the level of the context
  Key, Data     \* keys and values of the maps

VARIABLE
  level         \* level of the context
=============================================================================
