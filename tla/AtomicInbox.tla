----------------------------- MODULE AtomicInbox -----------------------------
(***************************************************************************)
(* What the callers of the inbox (store.go) rely on: a call takes effect   *)
(* at one instant between its start and its return, or not at all when it  *)
(* returns an error; the file is either readable, with the effect of every *)
(* call that took place and of no other, or unreadable for good.           *)
(***************************************************************************)
EXTENDS Naturals

CONSTANTS
    Clients,    \* goroutines that call the store
    Msgs,       \* message identifiers
    None        \* no message

VARIABLES
    content,    \* per message "absent", "open" or "closed"
    readable,   \* the file parses
    op,         \* the call each client is in, NoOp outside one
    reply       \* its outcome, "none" before it is decided

vars == <<content, readable, op, reply>>

Values == {"absent", "open", "closed"}
NoOp   == [kind |-> "none", msg |-> None]

\* The calls: AppendToInbox, an UpdateInbox that ends the work on a message,
\* ClearCompleted, and ReadInbox (GetInboxStats is the same).
Reads  == {[kind |-> "read", msg |-> None]}
Writes == {[kind |-> "append", msg |-> m] : m \in Msgs}
          \union {[kind |-> "close", msg |-> m] : m \in Msgs}
          \union {[kind |-> "clear", msg |-> None]}
Ops    == Reads \union Writes

Effect(o, c) ==
    [m \in Msgs |->
        IF o.kind = "append" /\ o.msg = m THEN "open"
        ELSE IF o.kind = "close" /\ o.msg = m /\ c[m] = "open" THEN "closed"
        ELSE IF o.kind = "clear" /\ c[m] = "closed" THEN "absent"
        ELSE c[m]]

Init ==
    /\ content = [m \in Msgs |-> "absent"]
    /\ readable = TRUE
    /\ op = [c \in Clients |-> NoOp]
    /\ reply = [c \in Clients |-> "none"]

\* Message identifiers are fresh: none is appended while it is in the inbox or
\* on its way there.
Fresh(m) ==
    content[m] = "absent" /\ \A c \in Clients : op[c] # [kind |-> "append", msg |-> m]

Call(c) ==
    /\ op[c] = NoOp
    /\ \E o \in Ops : /\ o.kind = "append" => Fresh(o.msg)
                      /\ op' = [op EXCEPT ![c] = o]
    /\ UNCHANGED <<content, readable, reply>>

Decide(c, r) ==
    /\ op[c] # NoOp /\ reply[c] = "none"
    /\ reply' = [reply EXCEPT ![c] = r]
    /\ UNCHANGED op

Perform(c) ==
    /\ Decide(c, "ok")
    /\ readable /\ UNCHANGED readable
    /\ content' = Effect(op[c], content)

\* A call fails when the file cannot be read or parsed, a write also when the lock
\* file is taken or cannot be written.
Refuse(c) ==
    /\ Decide(c, "error")
    /\ UNCHANGED <<content, readable>>

\* A write that fails half-way leaves the file unreadable.
Spoil(c) ==
    /\ Decide(c, "error")
    /\ op[c] \in Writes
    /\ readable' = FALSE
    /\ UNCHANGED content

Return(c) ==
    /\ reply[c] # "none"
    /\ op' = [op EXCEPT ![c] = NoOp]
    /\ reply' = [reply EXCEPT ![c] = "none"]
    /\ UNCHANGED <<content, readable>>

\* The process dies: its calls are gone, and a write may have been half-way.
Kill ==
    /\ op' = [c \in Clients |-> NoOp]
    /\ reply' = [c \in Clients |-> "none"]
    /\ \/ UNCHANGED readable
       \/ readable' = FALSE /\ \E c \in Clients : op[c] \in Writes /\ reply[c] = "none"
    /\ UNCHANGED content

Next ==
    \/ \E c \in Clients : Call(c) \/ Perform(c) \/ Refuse(c) \/ Spoil(c) \/ Return(c)
    \/ Kill

Spec == Init /\ [][Next]_vars
=============================================================================
