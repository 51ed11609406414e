------------------------------ MODULE MCPrudpStream ------------------------------
(***************************************************************************)
(* One connection's request path in three settings over the same           *)
(* variables.  The setting is chosen in the initial state and never        *)
(* changes.  The constants of the .cfg are those of the setting "ordered", *)
(* a network that duplicates but keeps order, where the seen set is cut    *)
(* several times; they are also the widest, so that the properties of      *)
(* PrudpStream can be stated of all three.                                 *)
(***************************************************************************)
EXTENDS PrudpStream

VARIABLE setting

\* Any network; sequence ids wrap and collide with what the cut set kept.
Wrapping == INSTANCE PrudpStream
  WITH SeqMod <- 3, SeenLimit <- 2, SeenKeep <- 1, InOrder <- FALSE, MaxReq <- 5,
       MaxPos <- 8, MaxRekey <- 0

\* Any network, with late CONNECTs.
Rekeyed == INSTANCE PrudpStream
  WITH Size <- {1, 2}, SeenLimit <- 8, InOrder <- FALSE, MaxReq <- 5, MaxPos <- 10

MCInit == setting \in {"ordered", "wrapping", "rekeyed"} /\ Init

MCNext ==
  /\ UNCHANGED setting
  /\ \/ setting = "ordered" /\ Next
     \/ setting = "wrapping" /\ Wrapping!Next
     \/ setting = "rekeyed" /\ Rekeyed!Next

MCSpec == MCInit /\ [][MCNext]_<<setting, vars>>

-----------------------------------------------------------------------------

\* Over the ordered network every acknowledged request has been dispatched,
\* until a CONNECT comes late or an id comes again.
OrderedAckedIsDispatched == setting = "ordered" => AckedIsDispatched

\* Over the ordered network, until then, what _data drops as "already processed"
\* has been dispatched.
OrderedDuplicateWasProcessed == setting = "ordered" => DuplicateWasProcessed
=============================================================================
