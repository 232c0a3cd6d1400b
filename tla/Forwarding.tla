----------------------------- MODULE Forwarding -----------------------------
(***************************************************************************)
(* The new-squeak forwarder, UpdateSubscribedSqueaksWorker                 *)
(* (src/squeaknode/node/update_subscribed_squeak_worker.py), against the   *)
(* connected peers of the network manager.                                 *)
(*                                                                         *)
(* handle_new_squeaks iterates subscribe_new_squeaks(stopped): the squeaks *)
(* the controller saves while the worker is subscribed, in order, until    *)
(* the stop flag is set.  forward_squeak takes get_connected_peers() once  *)
(* and, for each peer of that list, sends an inv when                      *)
(* peer.is_remote_subscribed(squeak) holds at that moment.  A send to a    *)
(* peer that has disconnected since is dropped (spec 4.6: fan-out is       *)
(* best-effort).  A peer's remote interest is abstracted to the set of     *)
(* squeaks its last `interested` message matches.                          *)
(*                                                                         *)
(* workerRunning and netRunning are given by the node that composes this   *)
(* module: whether the worker's thread and the network manager run.        *)
(***************************************************************************)
EXTENDS Naturals, Sequences

CONSTANTS
    Peers,        \* peer addresses (model values)
    NewSqueaks,   \* squeaks the node saves while running (model values)
    NONE

VARIABLES
    workerRunning, \* the worker is subscribed to new squeaks
    netRunning,    \* the network manager accepts and dials peers
    connected,     \* the connected peers
    interest,      \* interest[p]: the squeaks p's remote filter matches
    made,          \* squeaks saved so far
    queue,         \* squeaks the subscription has yet to yield
    current,       \* the squeak forward_squeak is working on, or NONE
    toVisit,       \* peers of the snapshot not yet looked at
    sent,          \* <<peer, squeak>> of every inv delivered
    owed           \* <<peer, squeak>>: p was connected and matched sq when
                   \* sq was saved, and still is (a history variable)

workerVars == <<queue, current, toVisit, sent>>
peerVars == <<connected, interest, owed>>
fwdVars == <<connected, interest, made, queue, current, toVisit, sent, owed>>

TypeOK ==
    /\ connected \subseteq Peers
    /\ interest \in [Peers -> SUBSET NewSqueaks]
    /\ made \subseteq NewSqueaks
    /\ queue \in Seq(NewSqueaks)
    /\ current \in NewSqueaks \cup {NONE}
    /\ toVisit \subseteq Peers
    /\ sent \subseteq Peers \X NewSqueaks
    /\ owed \subseteq Peers \X NewSqueaks

-----------------------------------------------------------------------------
\* The controller saves a new squeak; the worker's subscription yields it
\* only while the worker is subscribed.
SaveSqueak(sq) ==
    /\ sq \notin made
    /\ made' = made \cup {sq}
    /\ queue' = IF workerRunning THEN Append(queue, sq) ELSE queue
    /\ owed' = IF workerRunning
                 THEN owed \cup {<<p, sq>> : p \in {x \in connected : sq \in interest[x]}}
                 ELSE owed
    /\ UNCHANGED <<connected, interest, current, toVisit, sent>>

\* handle_new_squeaks: the next squeak of the subscription, while the stop
\* flag is clear; forward_squeak snapshots the connected peers.
NextNewSqueak ==
    /\ workerRunning
    /\ current = NONE
    /\ queue # <<>>
    /\ current' = Head(queue)
    /\ queue' = Tail(queue)
    /\ toVisit' = connected
    /\ UNCHANGED <<sent, peerVars, made>>

\* Mutant: the loop leaves after the first peer it forwards to.
ForwardToPeerFirstOnly(p) ==
    /\ current # NONE
    /\ p \in toVisit
    /\ IF current \in interest[p]
         THEN /\ sent' = IF p \in connected THEN sent \cup {<<p, current>>} ELSE sent
              /\ toVisit' = {}
         ELSE /\ toVisit' = toVisit \ {p}
              /\ UNCHANGED sent
    /\ UNCHANGED <<current, queue, peerVars, made>>

\* One iteration of the loop over the snapshot: is_remote_subscribed reads
\* the peer's filter now; send_msg to a peer gone since is dropped.
ForwardToPeer(p) ==
    /\ current # NONE
    /\ p \in toVisit
    /\ sent' = IF current \in interest[p] /\ p \in connected
                 THEN sent \cup {<<p, current>>}
                 ELSE sent
    /\ toVisit' = toVisit \ {p}
    /\ UNCHANGED <<current, queue, peerVars, made>>

\* The loop over the snapshot is done.
FinishForward ==
    /\ current # NONE
    /\ toVisit = {}
    /\ current' = NONE
    /\ UNCHANGED <<queue, toVisit, sent, peerVars, made>>

WorkerStep ==
    \/ NextNewSqueak
    \/ \E p \in Peers : ForwardToPeer(p)
    \/ FinishForward

-----------------------------------------------------------------------------
(***************************************************************************)
(* The network manager and the remote peers (spec 4.6).                    *)
(***************************************************************************)
\* A peer connects (inbound, or dialled by the peer connection worker);
\* its remote filter is empty until it sends `interested`.
Connect(p) ==
    /\ netRunning
    /\ p \notin connected
    /\ connected' = connected \cup {p}
    /\ interest' = [interest EXCEPT ![p] = {}]
    /\ UNCHANGED <<owed, made, workerVars>>

Disconnect(p) ==
    /\ p \in connected
    /\ connected' = connected \ {p}
    /\ owed' = {o \in owed : o[1] # p}
    /\ UNCHANGED <<interest, made, workerVars>>

\* The peer sends a new `interested` message.
SetInterest(p, S) ==
    /\ p \in connected
    /\ interest' = [interest EXCEPT ![p] = S]
    /\ owed' = {o \in owed : o[1] # p \/ o[2] \in S}
    /\ UNCHANGED <<connected, made, workerVars>>

PeerStep ==
    \/ \E p \in Peers : Connect(p) \/ Disconnect(p)
    \/ \E p \in Peers, S \in SUBSET NewSqueaks : SetInterest(p, S)

-----------------------------------------------------------------------------
Init ==
    /\ connected = {}
    /\ interest = [p \in Peers |-> {}]
    /\ made = {}
    /\ queue = <<>>
    /\ current = NONE
    /\ toVisit = {}
    /\ sent = {}
    /\ owed = {}

Next ==
    \/ \E sq \in NewSqueaks : SaveSqueak(sq)
    \/ WorkerStep
    \/ PeerStep

-----------------------------------------------------------------------------
\* Spec 4.6 and acceptance 2: a squeak saved while the worker runs reaches
\* every peer that was connected with a matching filter when it was saved
\* and stays so, however peers connect, disconnect and change filters
\* around the snapshot, unless the worker is stopped first.
ForwardedToSubscribers ==
    \A p \in Peers, sq \in NewSqueaks :
        <<p, sq>> \in owed ~>
            \/ <<p, sq>> \in sent
            \/ <<p, sq>> \notin owed
            \/ ~workerRunning

=============================================================================
