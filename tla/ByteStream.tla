----------------------------- MODULE ByteStream -----------------------------
(***************************************************************************)
(* What the receive path of a connection promises to its user: the peer's  *)
(* bytes, numbered from 0, arrive and are handed over in order, each at    *)
(* most once, with none left out unless the event queue overflowed (`lost`)*)
(* and the end of the stream comes after the last of them.                 *)
(***************************************************************************)
EXTENDS Naturals, Sequences, SequencesExt

CONSTANT StreamLen      \* bytes that the peer sends before its FIN

VARIABLES
    arrived,            \* bytes accepted from the peer
    read,               \* the bytes handed to the user, in order
    ended,              \* the end of the stream was accepted
    lost                \* an event was dropped undelivered

Init == arrived = 0 /\ read = <<>> /\ ended = FALSE /\ lost = FALSE

Arrive ==
    /\ arrived' \in arrived .. StreamLen
    /\ ended' \in {ended, arrived' = StreamLen}
    /\ ended => ended' /\ arrived' = arrived
    /\ lost' \in {lost, TRUE}
    /\ UNCHANGED read

Deliver ==
    /\ IsPrefix(read, read')
    /\ \A i \in DOMAIN read' :
          /\ read'[i] < arrived
          /\ i > 1 => read'[i - 1] < read'[i]
          /\ ~lost => read'[i] = i - 1
    /\ UNCHANGED <<arrived, ended, lost>>

Next == Arrive \/ Deliver

Spec == Init /\ [][Next]_<<arrived, read, ended, lost>>
=============================================================================
