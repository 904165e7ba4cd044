---------------------------------- MODULE Pipe ----------------------------------
(***************************************************************************)
(* One pipe of templates/pipe.py from its allocation to its end: the       *)
(* handshake of open_pipe with the coroutines that wait in expect_pipe,    *)
(* and the InProcessPipe both sides then share, one queue and one flag.    *)
(*                                                                         *)
(* Exchange shows what request() and expect() do; here, the request        *)
(* reaches whoever expects it when it is dispatched, and the first answer  *)
(* the client gets is its result.  Each side has a coroutine that keeps    *)
(* the context, one that sends and one that receives.                      *)
(***************************************************************************)
EXTENDS Naturals, SequencesExt, FiniteSets

CONSTANTS
  Client,       \* the caller of open_pipe
  Servers,      \* the callers of expect_pipe
  Sharing,      \* those of them that use the client's allocator
  MaxSize,      \* maxsize of the pipe's queue, 0 for no limit
  MaxSends,     \* bound: messages of all sides
  MaxCancels    \* bound: cancelled receives

ASSUME PipeAssumption ==
  /\ Client \notin Servers /\ Sharing \subseteq Servers
  /\ MaxSize \in Nat /\ MaxSends \in Nat /\ MaxCancels \in Nat

Sides == {Client} \cup Servers
Messages == Sides \X Nat      \* the messages of a side are numbered from 1
Nothing == <<>>

VARIABLES
  stage,       \* where the context manager of each side is
  requested,   \* is the handshake request in the bus?
  replies,     \* answers in the bus: do they say success?
  answer,      \* the future of the client's request
  allocated,   \* does the allocator hold the pipe?
  accepted,    \* history: servers that answered success
  closed,      \* _closed
  queue,       \* _queue
  sent,        \* number of the last message each side sent
  sending,     \* the message of a send that waits for room
  receiving,   \* where the receive of each side is
  got,         \* what its get task took
  orphans,     \* get tasks whose receive was cancelled
  entered,     \* history: messages put into the queue, in order
  received,    \* history: messages each side's receives returned, in order
  cancels,     \* history: number of cancelled receives
  reopened     \* history: did an open() find the pipe closed?

handshake == <<requested, replies, answer, allocated, accepted>>
sends == <<sent, sending, entered>>
receives == <<receiving, got, orphans, received, cancels>>
vars == <<stage, handshake, closed, queue, sends, receives, reopened>>

Init ==
  /\ stage = [x \in Sides |-> "idle"]
  /\ requested = FALSE /\ replies = {} /\ answer = "none"
  /\ allocated = FALSE /\ accepted = {}
  /\ closed = FALSE /\ queue = <<>>
  /\ sent = [x \in Sides |-> 0] /\ sending = [x \in Sides |-> Nothing]
  /\ receiving = [x \in Sides |-> "no"] /\ got = [x \in Sides |-> Nothing]
  /\ orphans = 0 /\ cancels = 0
  /\ entered = <<>> /\ received = [x \in Sides |-> <<>>]
  /\ reopened = FALSE

Goes(x, to) == stage' = [stage EXCEPT ![x] = to]

(* open() of a pipe the other side has closed by now throws its data away.   *)
Opens ==
  /\ closed' = FALSE
  /\ queue' = IF closed THEN <<>> ELSE queue
  /\ reopened' = (reopened \/ closed)

-------------------------------------------------------------------------------
(* open_pipe.                                                                *)

Allocate ==
  /\ stage[Client] = "idle" /\ Goes(Client, "calling")
  /\ allocated' = TRUE
  /\ UNCHANGED <<requested, replies, answer, accepted, closed, queue, sends, receives, reopened>>

Ask ==
  /\ stage[Client] = "calling" /\ Goes(Client, "asking")
  /\ requested' = TRUE
  /\ UNCHANGED <<replies, answer, allocated, accepted, closed, queue, sends, receives, reopened>>

(* Mutant for OpenIsAccepted: a response is enough.                          *)
AnyAnswer == answer # "none"
Agreed == answer = "success"

Link ==
  /\ stage[Client] = "asking" /\ Agreed
  /\ Goes(Client, "open") /\ Opens
  /\ UNCHANGED <<handshake, sends, receives>>

(* The handshake was refused or timed out, or the publish failed.            *)
GiveUp ==
  /\ stage[Client] \in {"calling", "asking"} /\ Goes(Client, "failed")
  /\ allocated' = FALSE
  /\ UNCHANGED <<requested, replies, answer, accepted, closed, queue, sends, receives, reopened>>

-------------------------------------------------------------------------------
(* expect_pipe.                                                              *)

Expect(s) ==
  /\ stage[s] = "idle" /\ Goes(s, "expecting")
  /\ UNCHANGED <<handshake, closed, queue, sends, receives, reopened>>

(* The dispatch reaches every server that is waiting.                        *)
DispatchRequest ==
  /\ requested
  /\ requested' = FALSE
  /\ stage' = [x \in Sides |-> IF stage[x] = "expecting" THEN "matched" ELSE stage[x]]
  /\ UNCHANGED <<replies, answer, allocated, accepted, closed, queue, sends, receives, reopened>>

(* No request came in time, a publish failed, or the server was cancelled.   *)
Miss(s) ==
  /\ stage[s] \in {"expecting", "matched", "accepting", "refusing", "linked"} /\ Goes(s, "failed")
  /\ UNCHANGED <<handshake, closed, queue, sends, receives, reopened>>

Find(s) ==
  /\ stage[s] = "matched"
  /\ Goes(s, IF allocated /\ s \in Sharing THEN "accepting" ELSE "refusing")
  /\ UNCHANGED <<handshake, closed, queue, sends, receives, reopened>>

Reply(s) ==
  /\ \/ /\ stage[s] = "accepting" /\ Goes(s, "linked")
        /\ replies' = replies \cup {TRUE} /\ accepted' = accepted \cup {s}
     \/ /\ stage[s] = "refusing" /\ Goes(s, "failed")
        /\ replies' = replies \cup {FALSE} /\ UNCHANGED accepted
  /\ UNCHANGED <<requested, answer, allocated, closed, queue, sends, receives, reopened>>

Open(s) ==
  /\ stage[s] = "linked" /\ Goes(s, "open") /\ Opens
  /\ UNCHANGED <<handshake, sends, receives>>

DispatchReply ==
  \E success \in replies :
    /\ replies' = replies \ {success}
    /\ answer' = IF stage[Client] # "asking" \/ answer # "none" THEN answer
                 ELSE IF success THEN "success" ELSE "failure"
    /\ UNCHANGED <<stage, requested, allocated, accepted, closed, queue, sends, receives, reopened>>

-------------------------------------------------------------------------------
(* The context of an open pipe.                                              *)

Leave(x) ==
  /\ stage[x] = "open" /\ Goes(x, "left")
  /\ closed' = TRUE
  /\ allocated' = (allocated /\ x # Client)
  /\ UNCHANGED <<requested, replies, answer, accepted, queue, sends, receives, reopened>>

-------------------------------------------------------------------------------
(* send.                                                                     *)

HasRoom == MaxSize = 0 \/ Len(queue) < MaxSize

Send(x) ==
  /\ stage[x] = "open" /\ ~closed
  /\ sending[x] = Nothing /\ SumFunction(sent) < MaxSends
  /\ sent' = [sent EXCEPT ![x] = @ + 1]
  /\ LET message == <<x, sent[x] + 1>>
     IN IF HasRoom
          THEN /\ queue' = Append(queue, message) /\ entered' = Append(entered, message)
               /\ UNCHANGED sending
          ELSE sending' = [sending EXCEPT ![x] = message] /\ UNCHANGED <<queue, entered>>
  /\ UNCHANGED <<stage, handshake, closed, receives, reopened>>

(* A waiting put looks at the room only, not at _closed.                     *)
SendOn(x) ==
  /\ sending[x] # Nothing /\ HasRoom
  /\ queue' = Append(queue, sending[x]) /\ entered' = Append(entered, sending[x])
  /\ sending' = [sending EXCEPT ![x] = Nothing]
  /\ UNCHANGED <<stage, handshake, closed, sent, receives, reopened>>

CancelSend(x) ==
  /\ sending[x] # Nothing
  /\ sending' = [sending EXCEPT ![x] = Nothing]
  /\ UNCHANGED <<stage, handshake, closed, queue, sent, entered, receives, reopened>>

-------------------------------------------------------------------------------
(* receive: a get task and a wait for _closed.                               *)

Receive(x) ==
  /\ stage[x] = "open" /\ receiving[x] = "no"
  /\ receiving' = [receiving EXCEPT ![x] = "starting"]
  /\ UNCHANGED <<stage, handshake, closed, queue, sends, got, orphans, received, cancels, reopened>>

(* The get task starts before the wait: what is queued goes first.           *)
(* Mutant for NothingLost: a closed pipe ends the receive although the get   *)
(* task of it has taken something.                                           *)
ClosedIsEnough(x) == receiving[x] = "waiting" /\ closed
SeesOnlyClosed(x) == receiving[x] = "waiting" /\ closed /\ got[x] = Nothing

Get(x) ==
  /\ receiving[x] \in {"starting", "waiting"} /\ got[x] = Nothing
  /\ \/ /\ queue # <<>>
        /\ got' = [got EXCEPT ![x] = Head(queue)] /\ queue' = Tail(queue)
     \/ receiving[x] = "starting" /\ queue = <<>> /\ UNCHANGED <<got, queue>>
  /\ receiving' = [receiving EXCEPT ![x] = "waiting"]
  /\ UNCHANGED <<stage, handshake, closed, sends, orphans, received, cancels, reopened>>

Return(x) ==
  /\ receiving[x] = "waiting" /\ got[x] # Nothing
  /\ receiving' = [receiving EXCEPT ![x] = "no"] /\ got' = [got EXCEPT ![x] = Nothing]
  /\ received' = [received EXCEPT ![x] = Append(@, got[x])]
  /\ UNCHANGED <<stage, handshake, closed, queue, sends, orphans, cancels, reopened>>

(* PipeClosedError.                                                          *)
(* Mutant for ReceivesEnd: the receive waits for its get task alone.         *)
NeverEnds(x) == FALSE /\ UNCHANGED vars
EndReceive(x) ==
  /\ SeesOnlyClosed(x)
  /\ receiving' = [receiving EXCEPT ![x] = "no"] /\ got' = [got EXCEPT ![x] = Nothing]
  /\ UNCHANGED <<stage, handshake, closed, queue, sends, orphans, received, cancels, reopened>>

(* asyncio.wait does not cancel what it waits for: the get task goes on, and *)
(* what it takes, or has taken, is lost.                                     *)
(* Mutant for InOrder: the get task puts what it took back into the queue.   *)
CancelReceivePutBack(x) ==
  /\ receiving[x] \in {"starting", "waiting"} /\ cancels < MaxCancels
  /\ receiving' = [receiving EXCEPT ![x] = "no"] /\ got' = [got EXCEPT ![x] = Nothing]
  /\ queue' = IF got[x] = Nothing THEN queue ELSE Append(queue, got[x])
  /\ cancels' = cancels + 1
  /\ UNCHANGED <<stage, handshake, closed, sends, orphans, received, reopened>>
CancelReceive(x) ==
  /\ receiving[x] \in {"starting", "waiting"} /\ cancels < MaxCancels
  /\ receiving' = [receiving EXCEPT ![x] = "no"] /\ got' = [got EXCEPT ![x] = Nothing]
  /\ orphans' = IF got[x] = Nothing THEN orphans + 1 ELSE orphans
  /\ cancels' = cancels + 1
  /\ UNCHANGED <<stage, handshake, closed, queue, sends, received, reopened>>

OrphanGet ==
  /\ orphans > 0 /\ queue # <<>>
  /\ orphans' = orphans - 1 /\ queue' = Tail(queue)
  /\ UNCHANGED <<stage, handshake, closed, sends, receiving, got, received, cancels, reopened>>

-------------------------------------------------------------------------------
Next ==
  \/ Allocate \/ Ask \/ Link \/ GiveUp
  \/ DispatchRequest \/ DispatchReply \/ OrphanGet
  \/ \E s \in Servers : Expect(s) \/ Miss(s) \/ Find(s) \/ Reply(s) \/ Open(s)
  \/ \E x \in Sides : \/ Leave(x)
                      \/ Send(x) \/ SendOn(x) \/ CancelSend(x)
                      \/ Receive(x) \/ Get(x) \/ Return(x) \/ EndReceive(x) \/ CancelReceive(x)

(* A receive goes on when it can; nothing makes a side send, receive, cancel *)
(* or leave.                                                                 *)
Spec == Init /\ [][Next]_vars
             /\ \A x \in Sides : WF_vars(Get(x) \/ Return(x) \/ EndReceive(x))

-------------------------------------------------------------------------------
(* The state has its type, and the queue its limit, whatever waits.          *)
TypeOK ==
  /\ stage \in [Sides -> {"idle", "calling", "asking", "expecting", "matched", "accepting",
                          "refusing", "linked", "open", "left", "failed"}]
  /\ {requested, allocated, closed, reopened} \subseteq BOOLEAN
  /\ replies \subseteq BOOLEAN /\ answer \in {"none", "success", "failure"}
  /\ accepted \subseteq Sharing
  /\ sent \in [Sides -> Nat]
  /\ {sending, got} \subseteq [Sides -> Messages \cup {Nothing}]
  /\ receiving \in [Sides -> {"no", "starting", "waiting"}]
  /\ orphans \in 0..MaxCancels /\ cancels \in 0..MaxCancels
  /\ {queue, entered} \subseteq Seq(Messages)
  /\ received \in [Sides -> Seq(Messages)]
  /\ MaxSize # 0 => Len(queue) <= MaxSize

(* A client opens its pipe only after a server that found the same pipe in   *)
(* the allocator has said so, whatever other servers answered                *)
(* (pipe.py 254-261, 303-315).                                               *)
OpenIsAccepted == stage[Client] = "open" => accepted # {}

(* A message is received at most once, on whichever side, and each receiver  *)
(* gets those of one sender in the order they entered the pipe, however      *)
(* sends wait and receives are cancelled (pipe.py 105-132).                  *)
InOrder ==
  /\ \A x \in Sides : IsInjective(received[x])
  /\ \A x, y \in Sides : x # y => Range(received[x]) \cap Range(received[y]) = {}
  /\ \A x \in Sides : \A i, j \in DOMAIN received[x] :
       i < j /\ received[x][i][1] = received[x][j][1] => received[x][i][2] < received[x][j][2]

(* Nothing that entered the pipe is lost, also after close(), unless a       *)
(* receive was cancelled or an open() found the pipe closed                  *)
(* (pipe.py 113-132, 136-144).                                               *)
NothingLost ==
  (cancels = 0 /\ ~reopened) =>
    Range(entered) = (UNION {Range(received[x]) : x \in Sides})
                       \cup Range(queue) \cup (Range(got) \ {Nothing})

(* A closed pipe ends every receive, on either side, unless it is opened     *)
(* again before (pipe.py 114-132).                                           *)
ReceivesEnd ==
  \A x \in Sides : receiving[x] # "no" /\ closed ~> receiving[x] = "no" \/ ~closed
===============================================================================
