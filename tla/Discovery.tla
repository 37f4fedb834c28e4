----------------------------- MODULE Discovery ------------------------------
(***************************************************************************)
(* Protocol1Client::discover (radio-utils-protocol): discover_multi of     *)
(* discovery.rs and the parser of protocol1.rs.  A request goes out, twice,*)
(* from a socket for each interface.  A task for each socket takes in      *)
(* answers until the deadline and sends them through one bounded channel   *)
(* to the caller, who keeps the first of each MAC address until the        *)
(* channel is closed: until every task has dropped its sender.             *)
(*                                                                         *)
(* Requests and answers may be lost and repeated, and a device may answer  *)
(* on several sockets: any datagram may arrive, or none.  The caller may   *)
(* drop the call at any time, which leaves the tasks to themselves.        *)
(***************************************************************************)
EXTENDS Integers, SequencesExt

CONSTANTS
  Sockets,      \* the pairs of bind address and target
  Datagrams,    \* what may arrive
  CHANNEL_CAP,  \* capacity of the channel (64)
  MAX_ANSWERS   \* bound of the model: datagrams that arrive during a call

Datagram == [len : 0..128, magic : BOOLEAN, status : 0..255, mac : STRING,
             code : 0..255, version : 0..255]

ASSUME DiscoveryAssumption ==
  /\ Datagrams \subseteq Datagram
  /\ CHANNEL_CAP \in Nat \ {0} /\ MAX_ANSWERS \in Nat

VARIABLES
  stage,     \* of the caller
  task,      \* where the task of each socket is
  arrived,   \* datagrams waiting in each socket, oldest first
  hand,      \* the device a task is about to send, if any
  channel,
  expired,   \* is the deadline over?
  devices,   \* the caller's list
  answers,   \* datagrams that have arrived
  taken      \* history: MAC addresses taken in by a task

discoveryVars ==
  <<stage, task, arrived, hand, channel, expired, devices, answers, taken>>

\* DiscoveredDevice, as far as the answers of one device differ.
Device == [mac : STRING, code : {1, 6}, status : {2, 3}]

\* parse_p1_discovery_response: nothing, or one device.
Parsed(dg) ==
  IF /\ dg.len >= 20 /\ dg.magic
     /\ dg.status \in {2, 3}
     /\ dg.version = 0
     /\ dg.code \in {1, 6}
  THEN <<[mac |-> dg.mac, code |-> dg.code, status |-> dg.status]>>
  ELSE <<>>

Open == {"top", "receive", "send"}
AllEnded == \A s \in Sockets : task[s] \notin Open

DiscoveryInit ==
  /\ stage = "idle"
  /\ task = [s \in Sockets |-> "none"]
  /\ arrived = [s \in Sockets |-> <<>>]
  /\ hand = [s \in Sockets |-> <<>>]
  /\ channel = <<>> /\ expired = FALSE
  /\ devices = <<>> /\ answers = 0 /\ taken = {}

-----------------------------------------------------------------------------
(* The caller.                                                             *)

\* The sockets that could be bound get a task; without any, the call fails.
\* The host program may call again when the call before is over.
Discover ==
  /\ stage \in {"idle", "failed", "returned", "cancelled"} /\ AllEnded
  /\ \E bound \in SUBSET Sockets :
       /\ stage' = IF bound = {} THEN "failed" ELSE "collecting"
       /\ task' = [s \in Sockets |-> IF s \in bound THEN "top" ELSE "none"]
  /\ channel' = <<>> /\ expired' = FALSE
  /\ devices' = <<>> /\ answers' = 0 /\ taken' = {}
  /\ UNCHANGED <<arrived, hand>>

\* rx.recv() returns a device.
Collect ==
  /\ stage = "collecting" /\ channel # <<>>
  /\ channel' = Tail(channel)
  /\ devices' = IF \E i \in DOMAIN devices : devices[i].mac = Head(channel).mac
                THEN devices ELSE Append(devices, Head(channel))
  /\ UNCHANGED <<stage, task, arrived, hand, expired, answers, taken>>

\* Mutant: the caller keeps a sender and looks at the clock.
MutantClosed == expired /\ channel = <<>>

Closed == AllEnded /\ channel = <<>>

\* rx.recv() returns nothing; the tasks have nothing left to be waited for.
Return ==
  /\ stage = "collecting" /\ Closed
  /\ stage' = "returned"
  /\ UNCHANGED <<task, arrived, hand, channel, expired, devices, answers, taken>>

\* The future is dropped, and the receiver with it.
Cancel ==
  /\ stage = "collecting"
  /\ stage' = "cancelled"
  /\ channel' = <<>> /\ devices' = <<>> /\ taken' = {}
  /\ UNCHANGED <<task, arrived, hand, expired, answers>>

-----------------------------------------------------------------------------
(* The network and the clock.                                              *)

Answer(s) ==
  /\ task[s] \in Open /\ answers < MAX_ANSWERS
  /\ \E dg \in Datagrams : arrived' = [arrived EXCEPT ![s] = Append(@, dg)]
  /\ answers' = answers + 1
  /\ UNCHANGED <<stage, task, hand, channel, expired, devices, taken>>

Expire ==
  /\ ~AllEnded /\ ~expired
  /\ expired' = TRUE
  /\ UNCHANGED <<stage, task, arrived, hand, channel, devices, answers, taken>>

-----------------------------------------------------------------------------
(* The task of a socket.                                                   *)

\* Ended, it drops its socket with what has not been read.
Becomes(s, where) ==
  /\ task' = [task EXCEPT ![s] = where]
  /\ arrived' = IF where = "ended" THEN [arrived EXCEPT ![s] = <<>>] ELSE arrived

LookAtClock(s) ==
  /\ task[s] = "top"
  /\ Becomes(s, IF expired THEN "ended" ELSE "receive")
  /\ UNCHANGED <<stage, hand, channel, expired, devices, answers, taken>>

\* A datagram that is there is taken in even if the deadline is over:
\* timeout() looks at the socket first.
Receive(s) ==
  /\ task[s] = "receive" /\ arrived[s] # <<>>
  /\ arrived' = [arrived EXCEPT ![s] = Tail(@)]
  /\ hand' = [hand EXCEPT ![s] = Parsed(Head(arrived[s]))]
  /\ task' = [task EXCEPT ![s] = IF hand'[s] = <<>> THEN "top" ELSE "send"]
  /\ taken' = IF hand'[s] = <<>> \/ stage # "collecting" THEN taken
              ELSE taken \union {hand'[s][1].mac}
  /\ UNCHANGED <<stage, channel, expired, devices, answers>>

\* An error of the socket is only logged.
ReceiveError(s) ==
  /\ task[s] = "receive"
  /\ Becomes(s, "top")
  /\ UNCHANGED <<stage, hand, channel, expired, devices, answers, taken>>

TimeOut(s) ==
  /\ task[s] = "receive" /\ expired
  /\ Becomes(s, "ended")
  /\ UNCHANGED <<stage, hand, channel, expired, devices, answers, taken>>

\* send() waits for room; without a receiver it fails and ends the task.
Send(s) ==
  /\ task[s] = "send"
  /\ \/ /\ stage # "collecting"
        /\ UNCHANGED channel
        /\ Becomes(s, "ended")
     \/ /\ stage = "collecting" /\ Len(channel) < CHANNEL_CAP
        /\ channel' = Append(channel, Head(hand[s]))
        /\ Becomes(s, "top")
  /\ hand' = [hand EXCEPT ![s] = <<>>]
  /\ UNCHANGED <<stage, expired, devices, answers, taken>>

TaskStep(s) == LookAtClock(s) \/ Receive(s) \/ ReceiveError(s) \/ TimeOut(s) \/ Send(s)

-----------------------------------------------------------------------------

Caller == Collect \/ Return
DiscoveryNext ==
  \/ Discover \/ Caller \/ Cancel \/ Expire
  \/ \E s \in Sockets : Answer(s) \/ TaskStep(s)

\* The deadline comes; the runtime polls a caller and tasks that can go on, and
\* the channel lets those that wait for room in first come, first served.
DiscoveryFairness ==
  /\ WF_discoveryVars(Caller) /\ WF_discoveryVars(Expire)
  /\ \A s \in Sockets : WF_discoveryVars(TaskStep(s))

-----------------------------------------------------------------------------
(* Properties.                                                             *)

DiscoveryTypeOK ==
  /\ stage \in {"idle", "failed", "collecting", "returned", "cancelled", "connected"}
  /\ task \in [Sockets -> Open \union {"none", "ended"}]
  /\ arrived \in [Sockets -> Seq(Datagrams)]
  /\ hand \in [Sockets -> Seq(Device)]
  /\ \A s \in Sockets : Len(hand[s]) = IF task[s] = "send" THEN 1 ELSE 0
  /\ channel \in Seq(Device) /\ Len(channel) <= CHANNEL_CAP
  /\ expired \in BOOLEAN
  /\ devices \in Seq(Device)
  /\ answers \in 0..MAX_ANSWERS
  /\ taken \subseteq STRING

\* The list names every device of which a task has taken in an answer, once,
\* and no other.
ListIsExact ==
  /\ {devices[i].mac : i \in DOMAIN devices} = taken
  /\ \A i, j \in DOMAIN devices : devices[i].mac = devices[j].mac => i = j

\* However many answers find the channel full, and whichever interface they
\* come by: a call is over at last, with no task left behind, and then each
\* device whose answer came in time is listed once; dropped by its caller, it
\* leaves no task that goes on for ever (discover_multi).  A host program need
\* not call again, so each call has to end this way.
DiscoverReturns ==
  []<>(AllEnded /\ stage # "collecting" /\ (stage = "returned" => ListIsExact))
=============================================================================
