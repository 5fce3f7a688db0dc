--------------------------- MODULE GroupRequests ---------------------------
(***************************************************************************)
(* Requests about multicast groups (common_OpGrp in src/libfcav/ulib.c and *)
(* its callers common_AddGrp, common_ExitGrp, common_QueryGrp).  Each      *)
(* operation has one static block of parameters, which all its callers     *)
(* share.  A caller clears the answer in it, writes its group, creates a   *)
(* detached thread that hands the block to the device, and looks for the   *)
(* answer a hundred times; then it sends the thread SIGINT and returns.    *)
(* The handler meant for that signal (inthdl) is never installed, so it    *)
(* ends the process, unless the application handles SIGINT for itself.     *)
(*                                                                         *)
(* Definitions introduced by "Mutant" are faulty variants of the one below *)
(* them, kept to show that the properties notice.                          *)
(***************************************************************************)
EXTENDS Naturals

CONSTANTS Callers,      \* threads that make requests
          Ops,          \* operations, each with a block of its own
          Groups,       \* the groups they ask about
          MaxCalls,     \* bound: calls in a behaviour
          Unanswered    \* a model value: the -1 that stands for no answer

ASSUME RequestAssumption ==
    /\ MaxCalls \in Nat
    /\ Unanswered \notin Groups

Calls   == 1 .. MaxCalls
Answers == Groups \cup {Unanswered}

VARIABLES made,     \* calls made so far
          call,     \* per call: its caller, operation and group, where it is
                    \* and what it returned
          helper,   \* per call: the thread created for it, and the group the
                    \* device took from the block
          block,    \* per operation: the group to act on, the answer
          handled,  \* the application handles SIGINT
          killed,   \* a signal has ended the process
          shared,   \* history: operations two callers were in at a time
          late,     \* history: operations given up while their thread ran on
          met       \* history: calls in whose time an answer came to their block

requestVars == <<made, call, helper, block, handled, killed, shared, late, met>>

NoCall == [by |-> Unanswered, op |-> Unanswered, grp |-> Unanswered,
           at |-> "none", got |-> Unanswered]

RequestTypeOK ==
    /\ made \in 0 .. MaxCalls
    /\ call \in [Calls -> {NoCall} \cup
                   [by : Callers, op : Ops, grp : Groups,
                    at : {"asking", "returned"}, got : Answers]]
    /\ helper \in [Calls -> [at : {"none", "begun", "asking", "ended"}, grp : Answers]]
    /\ \A n \in Calls : (n > made) <=> (call[n] = NoCall)
    /\ \A n \in Calls : (n > made) <=> (helper[n].at = "none")
    /\ block \in [Ops -> [grp : Answers, retv : Answers]]
    /\ handled \in BOOLEAN /\ killed \in BOOLEAN
    /\ shared \subseteq Ops /\ late \subseteq Ops /\ met \subseteq Calls

RequestInit ==
    /\ made = 0
    /\ call = [n \in Calls |-> NoCall]
    /\ helper = [n \in Calls |-> [at |-> "none", grp |-> Unanswered]]
    /\ block = [o \in Ops |-> [grp |-> Unanswered, retv |-> Unanswered]]
    /\ handled \in BOOLEAN
    /\ killed = FALSE /\ shared = {} /\ late = {} /\ met = {}

Asking(n)     == call[n].at = "asking"
ThreadRuns(n) == helper[n].at \in {"begun", "asking"}

-----------------------------------------------------------------------------
\* common_OpGrp() up to its loop: the answer of the call before is cleared.
MutantCleared(o) == block[o].retv
Cleared(o) == Unanswered

Ask(c, o, g) ==
    /\ ~killed
    /\ made < MaxCalls
    /\ \A n \in Calls : ~ (call[n].by = c /\ Asking(n))
    /\ made' = made + 1
    /\ call' = [call EXCEPT ![made'] = [by |-> c, op |-> o, grp |-> g,
                                        at |-> "asking", got |-> Unanswered]]
    /\ helper' = [helper EXCEPT ![made'].at = "begun"]
    /\ block' = [block EXCEPT ![o] = [grp |-> g, retv |-> Cleared(o)]]
    /\ shared' = IF \E n \in Calls : Asking(n) /\ call[n].op = o
                 THEN shared \cup {o} ELSE shared
    /\ UNCHANGED <<handled, killed, late, met>>

\* common_protocol_thread(): the device takes the group from the block when
\* it is asked.  A device that cannot be opened leaves the block alone.
AskDevice(n) ==
    /\ ~killed
    /\ helper[n].at = "begun"
    /\ \/ helper' = [helper EXCEPT ![n] =
                       [at |-> "asking", grp |-> block[call[n].op].grp]]
       \/ helper' = [helper EXCEPT ![n].at = "ended"]
    /\ UNCHANGED <<made, call, block, handled, killed, shared, late, met>>

\* It answers, with -1 when it fails.
Answer(n) ==
    /\ ~killed
    /\ helper[n].at = "asking"
    /\ helper' = [helper EXCEPT ![n] = [at |-> "ended", grp |-> Unanswered]]
    /\ \E r \in {helper[n].grp, Unanswered} :
          /\ block' = [block EXCEPT ![call[n].op].retv = r]
          /\ met' = IF r = Unanswered THEN met
                    ELSE met \cup {c \in Calls : Asking(c) /\ call[c].op = call[n].op}
    /\ UNCHANGED <<made, call, handled, killed, shared, late>>

\* common_OpGrp() finds an answer in the block, whosever it is.
Take(n) ==
    /\ ~killed
    /\ Asking(n)
    /\ block[call[n].op].retv # Unanswered
    /\ call' = [call EXCEPT ![n].at = "returned", ![n].got = block[call[n].op].retv]
    /\ UNCHANGED <<made, helper, block, handled, killed, shared, late, met>>

\* After the last of a hundred sleeps, at any time here, it does not look again.  The signal ends the process,
\* or goes to a handler of the application's and the thread runs on; sent to
\* a thread that has ended it may also be lost.
TimeOut(n) ==
    /\ ~killed
    /\ Asking(n)
    /\ \/ /\ ~handled
          /\ killed' = TRUE
       \/ /\ handled \/ ~ThreadRuns(n)
          /\ killed' = FALSE
    /\ call' = [call EXCEPT ![n].at = "returned"]
    /\ late' = IF ThreadRuns(n) THEN late \cup {call[n].op} ELSE late
    /\ UNCHANGED <<made, helper, block, handled, shared, met>>

-----------------------------------------------------------------------------
RequestNext ==
    \/ \E c \in Callers, o \in Ops, g \in Groups : Ask(c, o, g)
    \/ \E n \in Calls : AskDevice(n) \/ Answer(n) \/ Take(n) \/ TimeOut(n)

RequestSpec == RequestInit /\ [][RequestNext]_requestVars

-----------------------------------------------------------------------------
(* What a request promises                                                 *)

\* A call that returns an answer returns that of its own request, as long as
\* two callers are never in the operation at a time and no earlier call of it
\* was given up while its thread ran on.
AnswerIsOwn ==
    \A n \in Calls :
        /\ call[n].got # Unanswered
        /\ call[n].op \notin shared \cup late
        => call[n].got = call[n].grp

\* However a block is shared, and whichever thread is late: no call returns an
\* answer that the device gave before the call was made.  It may be the answer to
\* another's request, but one that came in while this one was waited for.
AnswerIsFresh == \A n \in Calls : call[n].got # Unanswered => n \in met

=============================================================================
