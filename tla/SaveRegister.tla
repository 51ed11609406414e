------------------------------ MODULE SaveRegister ------------------------------
(***************************************************************************)
(* What the DataStore promises of a player's save: it is a register.  A    *)
(* save is written at once and whole; a load is of the value at the moment *)
(* it opens, and the size it is told and the file it is given are both of  *)
(* that value, whatever is written meanwhile.  A load of a save that was   *)
(* never written is promised nothing.                                      *)
(***************************************************************************)

CONSTANTS Owner, Content, NoObject

VARIABLES value,    \* the save of each player, NoObject without one
          loading,  \* by player: the value its load opened with
          told,     \* ... whose size it was told
          given     \* ... and which it was given

vars == <<value, loading, told, given>>

Nothing == [o \in Owner |-> NoObject]

Init == value = Nothing /\ loading = Nothing /\ told = Nothing /\ given = Nothing

Write(o, c) ==
  /\ value' = [value EXCEPT ![o] = c]
  /\ UNCHANGED <<loading, told, given>>

Open(o, w) ==
  /\ loading[o] = NoObject
  /\ loading' = [loading EXCEPT ![o] = value[w]]
  /\ UNCHANGED <<value, told, given>>

Tell(o) ==
  /\ told' = [told EXCEPT ![o] = loading[o]]
  /\ UNCHANGED <<value, loading, given>>

Give(o) ==
  /\ told[o] = loading[o]
  /\ given' = [given EXCEPT ![o] = loading[o]]
  /\ UNCHANGED <<value, loading, told>>

Close(o) ==
  /\ loading' = [loading EXCEPT ![o] = NoObject]
  /\ told' = [told EXCEPT ![o] = NoObject]
  /\ given' = [given EXCEPT ![o] = NoObject]
  /\ UNCHANGED value

\* Everything goes at once, loads in progress too.
Wipe == value' = Nothing /\ loading' = Nothing /\ told' = Nothing /\ given' = Nothing

Next ==
  \/ \E o \in Owner :
       \/ \E c \in Content : Write(o, c)
       \/ \E w \in Owner : Open(o, w)
       \/ Tell(o) \/ Give(o) \/ Close(o)
  \/ Wipe

Spec == Init /\ [][Next]_vars
=============================================================================
