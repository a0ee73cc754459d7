------------------------------ MODULE Sessions ------------------------------
(***************************************************************************)
(* What a server built on saurion may rely on: the callbacks of each       *)
(* connection, one connection at a time and with no ring, request or file  *)
(* descriptor in sight.  A connection is announced once by on_connected,   *)
(* its messages come through on_readed in the order the peer sent them,    *)
(* and on_closed comes last, after the peer closed and every whole message *)
(* was delivered.  That ends where a message longer than two segments has  *)
(* begun to come: the connection may be torn, and all that is promised     *)
(* then is that on_closed comes after the peer closed.                     *)
(***************************************************************************)
EXTENDS Integers

CONSTANTS
  Conns,    (* connections                                                 *)
  Parts,    (* the segments of a message                                   *)
  MaxSent   (* the segments a peer sends at most                           *)

VARIABLES
  peer,     (* what the peer did: "away", "open" or "gone"                 *)
  sent,     (* the segments it sent                                        *)
  told,     (* "nothing" before on_connected, then "connected" or "torn",  *)
            (* and "closed" after on_closed                                *)
  read      (* the segments delivered by on_readed                         *)

vars == <<peer, sent, told, read>>

Init ==
  /\ peer = [c \in Conns |-> "away"]
  /\ sent = [c \in Conns |-> 0]
  /\ told = [c \in Conns |-> "nothing"]
  /\ read = [c \in Conns |-> 0]

PeerConnect(c) ==
  /\ peer[c] = "away"
  /\ peer' = [peer EXCEPT ![c] = "open"]
  /\ UNCHANGED <<sent, told, read>>

PeerSend(c) ==
  /\ peer[c] = "open" /\ sent[c] < MaxSent
  /\ sent' = [sent EXCEPT ![c] = @ + 1]
  /\ UNCHANGED <<peer, told, read>>

PeerClose(c) ==
  /\ peer[c] = "open"
  /\ peer' = [peer EXCEPT ![c] = "gone"]
  /\ UNCHANGED <<sent, told, read>>

Connected(c) ==
  /\ peer[c] # "away" /\ told[c] = "nothing"
  /\ told' = [told EXCEPT ![c] = "connected"]
  /\ UNCHANGED <<peer, sent, read>>

Received(c) ==
  /\ told[c] = "connected" /\ read[c] + Parts <= sent[c]
  /\ read' = [read EXCEPT ![c] = @ + Parts]
  /\ UNCHANGED <<peer, sent, told>>

Torn(c) ==
  /\ told[c] = "connected"
  /\ Parts > 2 /\ read[c] + 2 <= sent[c]
  /\ told' = [told EXCEPT ![c] = "torn"]
  /\ UNCHANGED <<peer, sent, read>>

Closed(c) ==
  /\ peer[c] = "gone"
  /\ \/ told[c] = "connected" /\ sent[c] - read[c] < Parts
     \/ told[c] = "torn"
  /\ told' = [told EXCEPT ![c] = "closed"]
  /\ UNCHANGED <<peer, sent, read>>

Next == \E c \in Conns :
          PeerConnect(c) \/ PeerSend(c) \/ PeerClose(c)
          \/ Connected(c) \/ Received(c) \/ Torn(c) \/ Closed(c)

Spec == Init /\ [][Next]_vars
=============================================================================
