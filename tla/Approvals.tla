----------------------------- MODULE Approvals -----------------------------
(***************************************************************************)
(* Permission requests: a run that was denied a tool sends a keyboard with *)
(* Allow and Deny and waits for a tap, a cancelled context or two minutes. *)
(* The taps come back as Telegram updates, each handled by a goroutine of  *)
(* its own, that finds the waiting request through a map from ids to       *)
(* channels.  Worker and BackgroundPool have a map each and the handler    *)
(* picks it by the prefix of the id, so one function over all ids stands   *)
(* for both.  An id asks again: a ralph loop in every iteration, a message *)
(* when it is run again.  Keyboards and undelivered taps outlive the       *)
(* process, maps and channels do not.                                      *)
(***************************************************************************)
EXTENDS Naturals

CONSTANTS
    Ids,            \* ids of messages and of background tasks
    Background,     \* those of background tasks ("bg_..."), never reused after a restart
    MaxRequests,    \* bound: requests made under one id
    MaxTaps,        \* bound: taps of the user
    MaxCrashes      \* bound: ends of the process

ASSUME IdsAssumption == Background \subseteq Ids
ASSUME BoundsAssumption ==
    MaxRequests \in Nat /\ MaxTaps \in Nat /\ MaxCrashes \in Nat

Requests == 1 .. MaxRequests
Taps     == 1 .. MaxTaps
None     == 0

\* A keyboard belongs to a request.
Keyboards == [id : Ids, req : Requests]

VARIABLES
    pc,         \* where the requester of an id is
    count,      \* requests made under an id so far
    approvals,  \* the map: the request whose channel is stored under an id
    chan,       \* the tap whose answer is in the channel of a request
    decidedBy,  \* the tap whose answer a request has received
    buttons,    \* keyboards the chat shows with their buttons
    tap,        \* the updates, and the handlers that run them
    tapped,     \* number of taps so far
    crashes,    \* ends of the process so far
    retired     \* background tasks that died with a process

requester == <<pc, count, decidedBy>>
bounds    == <<tapped, crashes, retired>>
vars      == <<requester, approvals, chan, buttons, tap, bounds>>

Registered == {"send", "shown", "wait", "leave"}
Handling   == {"load", "post"}

\* Before the user's tap a record of tap is this one.
Unused == [at |-> "unused", ref |-> None, kb |-> [id |-> None, req |-> None]]

Init ==
    /\ pc = [i \in Ids |-> "idle"] /\ count = [i \in Ids |-> 0]
    /\ approvals = [i \in Ids |-> None]
    /\ chan = [i \in Ids |-> [n \in Requests |-> None]]
    /\ decidedBy = [i \in Ids |-> [n \in Requests |-> None]]
    /\ buttons = {}
    /\ tap = [k \in Taps |-> Unused]
    /\ tapped = 0 /\ crashes = 0 /\ retired = {}

-----------------------------------------------------------------------------
(* requestApproval of Worker and of BackgroundPool                         *)

Goto(i, p) == pc' = [pc EXCEPT ![i] = p]

\* A message may be run again at any time; a task asks again only as a ralph
\* loop whose last request was answered (with Allow, then).
MayAsk(i) ==
    /\ pc[i] = "idle" /\ count[i] < MaxRequests
    /\ i \in Background =>
          i \notin retired /\ (count[i] # 0 => decidedBy[i][count[i]] # None)

Begin(i) ==
    /\ MayAsk(i)
    /\ count' = [count EXCEPT ![i] = @ + 1]
    /\ approvals' = [approvals EXCEPT ![i] = count'[i]]
    /\ Goto(i, "send")
    /\ UNCHANGED <<decidedBy, chan, buttons, tap, bounds>>

\* SendApprovalRequest: the keyboard is there before the call returns, and may
\* be there although the call, and the plain-text one after it, report errors.
Show(i) ==
    /\ pc[i] = "send"
    /\ buttons' = buttons \union {[id |-> i, req |-> count[i]]}
    /\ Goto(i, "shown")
    /\ UNCHANGED <<count, decidedBy, approvals, chan, tap, bounds>>

Sent(i) ==
    /\ pc[i] = "shown"
    /\ Goto(i, "wait")
    /\ UNCHANGED <<count, decidedBy, approvals, chan, buttons, tap, bounds>>

SendFails(i) ==
    /\ pc[i] \in {"send", "shown"}
    /\ Goto(i, "leave")
    /\ UNCHANGED <<count, decidedBy, approvals, chan, buttons, tap, bounds>>

Receive(i) ==
    /\ pc[i] = "wait" /\ chan[i][count[i]] # None
    /\ decidedBy' = [decidedBy EXCEPT ![i][count[i]] = chan[i][count[i]]]
    /\ chan' = [chan EXCEPT ![i][count[i]] = None]
    /\ Goto(i, "leave")
    /\ UNCHANGED <<count, approvals, buttons, tap, bounds>>

\* Mutant: neither the context nor the timer ends the wait.
GiveUpNever(i) ==
    /\ pc[i] = "wait" /\ chan[i][count[i]] # None
    /\ Goto(i, "leave")
    /\ UNCHANGED <<count, decidedBy, approvals, chan, buttons, tap, bounds>>

\* The context or the timer; select may prefer them to a tap that is there.
GiveUp(i) ==
    /\ pc[i] = "wait"
    /\ Goto(i, "leave")
    /\ UNCHANGED <<count, decidedBy, approvals, chan, buttons, tap, bounds>>

\* Mutant: the entry is deleted only after an answer, not by a defer.
LeaveAnswered(i) ==
    /\ pc[i] = "leave"
    /\ approvals' = IF decidedBy[i][count[i]] = None THEN approvals
                    ELSE [approvals EXCEPT ![i] = None]
    /\ Goto(i, "idle")
    /\ UNCHANGED <<count, decidedBy, chan, buttons, tap, bounds>>

\* The deferred Delete, after every outcome.
Leave(i) ==
    /\ pc[i] = "leave"
    /\ approvals' = [approvals EXCEPT ![i] = None]
    /\ Goto(i, "idle")
    /\ UNCHANGED <<count, decidedBy, chan, buttons, tap, bounds>>

Requester(i) ==
    Show(i) \/ Sent(i) \/ SendFails(i) \/ Receive(i) \/ GiveUp(i) \/ Leave(i)

-----------------------------------------------------------------------------
(* Taps and handleCallback                                                 *)

Step(k, p) == tap' = [tap EXCEPT ![k].at = p]

\* The user taps a button that is shown, more than once if nothing hides it.
\* Which of the two is left open: all code below treats them alike.
Tap(kb) ==
    /\ tapped < MaxTaps /\ kb \in buttons
    /\ tapped' = tapped + 1
    /\ tap' = [tap EXCEPT ![tapped'] = [at |-> "queued", ref |-> None, kb |-> kb]]
    /\ UNCHANGED <<requester, approvals, chan, buttons, crashes, retired>>

\* The update arrives and a goroutine starts.  It puts the answer in place of the
\* buttons before anybody knows if the answer still counts; the edit may fail,
\* or hide only one of two copies.
Deliver(k) ==
    /\ tap[k].at = "queued"
    /\ buttons' \in {buttons, buttons \ {tap[k].kb}}
    /\ Step(k, "load")
    /\ UNCHANGED <<requester, approvals, chan, bounds>>

\* Mutant: a tap that finds no request leaves its answer to the next one.
LoadKept(k) ==
    LET i == tap[k].kb.id
        n == IF approvals[i] # None THEN approvals[i] ELSE count[i] + 1
    IN /\ tap[k].at = "load" /\ n \in Requests
       /\ tap' = [tap EXCEPT ![k].at = "post", ![k].ref = n]
       /\ UNCHANGED <<requester, approvals, chan, buttons, bounds>>

\* ResolveApproval finds the channel stored under the id of the button, if any.
Load(k) ==
    LET n == approvals[tap[k].kb.id]
    IN /\ tap[k].at = "load"
       /\ tap' = [tap EXCEPT ![k].at = IF n = None THEN "done" ELSE "post",
                             ![k].ref = n]
       /\ UNCHANGED <<requester, approvals, chan, buttons, bounds>>

\* Mutant: the send is not in a select with a default.
PostBlocks(k) ==
    LET kb == tap[k].kb  n == tap[k].ref
    IN /\ tap[k].at = "post" /\ chan[kb.id][n] = None
       /\ chan' = [chan EXCEPT ![kb.id][n] = k]
       /\ Step(k, "done")
       /\ UNCHANGED <<requester, approvals, buttons, bounds>>

\* Mutant: the channel has no buffer, only a waiting request takes the answer.
PostUnbuffered(k) ==
    LET kb == tap[k].kb  n == tap[k].ref
    IN /\ tap[k].at = "post"
       /\ chan' = IF chan[kb.id][n] = None /\ pc[kb.id] = "wait" /\ count[kb.id] = n
                  THEN [chan EXCEPT ![kb.id][n] = k] ELSE chan
       /\ Step(k, "done")
       /\ UNCHANGED <<requester, approvals, buttons, bounds>>

\* The non-blocking send to the channel that was loaded, whose buffer is one.
Post(k) ==
    LET kb == tap[k].kb  n == tap[k].ref
    IN /\ tap[k].at = "post"
       /\ chan' = IF chan[kb.id][n] = None
                  THEN [chan EXCEPT ![kb.id][n] = k] ELSE chan
       /\ Step(k, "done")
       /\ UNCHANGED <<requester, approvals, buttons, bounds>>

Handler(k) == Deliver(k) \/ Load(k) \/ Post(k)

-----------------------------------------------------------------------------
\* The process ends and starts again.  An update whose handler was running is
\* delivered again unless the next poll had confirmed it already.
Crash ==
    /\ crashes < MaxCrashes
    /\ crashes' = crashes + 1
    /\ pc' = [i \in Ids |-> "idle"]
    /\ approvals' = [i \in Ids |-> None]
    /\ chan' = [i \in Ids |-> [n \in Requests |-> None]]
    /\ retired' = Background
    /\ \E again \in SUBSET {k \in Taps : tap[k].at \in Handling \union {"done"}} :
          tap' = [k \in Taps |->
                    IF k \in again THEN [tap[k] EXCEPT !.at = "queued", !.ref = None]
                    ELSE [tap[k] EXCEPT !.at = IF @ \in Handling THEN "lost" ELSE @]]
    /\ UNCHANGED <<count, decidedBy, buttons, tapped>>

Next ==
    \/ \E i \in Ids : Begin(i) \/ Requester(i)
    \/ \E kb \in buttons : Tap(kb)
    \/ \E k \in Taps : Handler(k)
    \/ Crash

Spec == Init /\ [][Next]_vars

(***************************************************************************)
(* Fairness.  Goroutines run, Telegram delivers the updates it holds, and  *)
(* the timer of a waiting request fires.  Nobody has to ask, tap or crash. *)
(***************************************************************************)
Fairness ==
    /\ \A i \in Ids : WF_vars(Requester(i))
    /\ \A k \in Taps : WF_vars(Handler(k))

FairSpec == Spec /\ Fairness
-----------------------------------------------------------------------------
(* Properties                                                              *)

TypeOK ==
    /\ pc \in [Ids -> Registered \union {"idle"}]
    /\ count \in [Ids -> 0 .. MaxRequests]
    /\ approvals \in [Ids -> 0 .. MaxRequests]
    /\ chan \in [Ids -> [Requests -> 0 .. MaxTaps]]
    /\ decidedBy \in [Ids -> [Requests -> 0 .. MaxTaps]]
    /\ buttons \subseteq Keyboards
    /\ tap \in [Taps -> [at : {"unused", "queued", "done", "lost"} \union Handling,
                         ref : 0 .. MaxRequests, kb : Keyboards \union {Unused.kb}]]
    /\ tapped \in 0 .. MaxTaps /\ crashes \in 0 .. MaxCrashes
    /\ retired \subseteq Ids

\* The map names a channel exactly while somebody may still listen to it: the
\* entry of an id is the request in progress on every path, the failed sends
\* included, so a tap never answers a request that has returned.
EntryOwned ==
    \A i \in Ids : approvals[i] = IF pc[i] = "idle" THEN None ELSE count[i]

\* A first answer is kept wherever the request is, between Store and the select
\* too: a handler that found its channel and is done has left that channel
\* full, unless the request has received an answer or returned.
AnswerKept ==
    \A k \in Taps : tap[k].at = "done" /\ tap[k].ref # None =>
        LET i == tap[k].kb.id  n == tap[k].ref
        IN \/ chan[i][n] # None \/ decidedBy[i][n] # None
           \/ approvals[i] # n \/ pc[i] = "leave"

\* The answer that decides a request is of its own id (README: background approvals
\* do not interfere with foreground ones), and its handler looked this very request
\* up while it was open: an answer that comes when nobody waits is dropped and not
\* left for the next request, in a later process neither.  Which keyboard it was is
\* another matter: one of an earlier request of the id, expired by its own text,
\* decides the request that is open now.
AnswerIsAwaited ==
    [][/\ \A k \in Taps : tap[k].ref = None /\ tap'[k].ref # None =>
             LET i == tap[k].kb.id IN pc[i] # "idle" /\ tap'[k].ref = count[i]
       /\ \A i \in Ids, n \in Requests : decidedBy[i][n] = None /\ decidedBy'[i][n] # None =>
             LET k == decidedBy'[i][n] IN tap[k].kb.id = i /\ tap[k].ref = n]_vars

\* Every request comes to an end, whether its keyboard is shown, tapped or not.
RequestsEnd == \A i \in Ids : pc[i] # "idle" ~> pc[i] = "idle"

\* Every tap is handled to its end: no handler stays blocked on a channel nobody
\* reads any more.
HandlersReturn ==
    \A k \in Taps : tap[k].at = "queued" ~> tap[k].at \in {"done", "lost"}

-----------------------------------------------------------------------------
(* The inductive invariant                                                 *)

\* Nothing is known of a request before it is made, and one in progress was made.
FutureOK ==
    \A i \in Ids :
        /\ pc[i] # "idle" => count[i] > 0
        /\ \A n \in Requests :
              n > count[i] => chan[i][n] = None /\ decidedBy[i][n] = None

\* Taps come from keyboards of requests that were made, and a handler posts to a
\* request that was made.
TapsOK ==
    /\ \A kb \in buttons : kb.req <= count[kb.id]
    /\ \A k \in Taps :
          /\ tap[k].at = "unused" <=> k > tapped
          /\ k <= tapped => /\ tap[k].kb \in Keyboards
                            /\ tap[k].kb.req <= count[tap[k].kb.id]
                            /\ tap[k].ref <= count[tap[k].kb.id]
          /\ tap[k].at = "post" => tap[k].ref # None

\* An answer in a channel was put there by a handler that loaded this channel.
ChannelsOK ==
    \A i \in Ids, n \in Requests : chan[i][n] # None =>
        LET k == chan[i][n]
        IN k <= tapped /\ tap[k].at = "done" /\ tap[k].kb.id = i /\ tap[k].ref = n

\* The invariants together with what makes them inductive.
IInv == TypeOK /\ EntryOwned /\ AnswerKept /\ FutureOK /\ TapsOK /\ ChannelsOK
=============================================================================
