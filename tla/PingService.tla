---------------------------- MODULE PingService ----------------------------
(***************************************************************************)
(* What the Linux client of vf610/linux_client.c promises the other core:  *)
(* requests are taken in the order they were sent, each request that can   *)
(* be answered gets one reply, itself, and only a full reply queue, or the *)
(* end of the core that serves them, takes a reply away.                   *)
(*                                                                         *)
(* The module knows nothing of tasks, callbacks, buffers or interrupts.    *)
(* LinuxClient.tla is shown to implement it.                               *)
(***************************************************************************)
EXTENDS Naturals, Sequences

CONSTANTS
  Request,      \* the requests
  Answerable,   \* those that get a reply
  Limit         \* length of the reply queue

VARIABLES
  pending,  \* the requests not handled yet, oldest first
  replies,  \* the replies not collected yet, oldest first
  serving   \* the service has not ended

vars == <<pending, replies, serving>>

Init == pending = <<>> /\ replies = <<>> /\ serving = TRUE

Ask ==
  /\ \E r \in Request : pending' = Append(pending, r)
  /\ UNCHANGED <<replies, serving>>

Reply ==
  /\ serving /\ pending # <<>> /\ Head(pending) \in Answerable
  /\ Len(replies) < Limit
  /\ replies' = Append(replies, Head(pending))
  /\ pending' = Tail(pending)
  /\ UNCHANGED serving

Ignore ==
  /\ serving /\ pending # <<>>
  /\ Head(pending) \notin Answerable \/ Len(replies) = Limit
  /\ pending' = Tail(pending)
  /\ UNCHANGED <<replies, serving>>

Collect ==
  /\ replies # <<>>
  /\ replies' = Tail(replies)
  /\ UNCHANGED <<pending, serving>>

\* The service ends, or starts anew with nothing of what was.
Stop == serving' = FALSE /\ UNCHANGED <<pending, replies>>
Restart == pending' = <<>> /\ replies' = <<>> /\ serving' = serving

Next == Ask \/ Reply \/ Ignore \/ Collect \/ Stop \/ Restart

Spec == Init /\ [][Next]_vars
=============================================================================
