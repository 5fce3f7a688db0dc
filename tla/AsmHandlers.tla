---------------------------- MODULE AsmHandlers ----------------------------
(***************************************************************************)
(* The table of message handlers of src/src/libfcav/ulib.c: g_hdl_tbl, the *)
(* wait_io thread behind each of its entries, and the calls that add and   *)
(* remove handlers.  A handler is a struct wait_io_param_ on the heap: its *)
(* thread frees it, its fd is the sign by which the thread is told to go.  *)
(*                                                                         *)
(* The table has no lock.  The application's thread adds and removes; the  *)
(* threads that receive video, one per picture shown, add while it does.   *)
(* create_wait_io_thread() looks at one entry after the other, starts the  *)
(* thread when it finds one free, and stores the block there afterwards;   *)
(* each look and the store are steps of their own.  So are the look, the   *)
(* close and the clearing of a removal.                                    *)
(*                                                                         *)
(* Definitions introduced by "Mutant" are faulty variants of the one that  *)
(* follows them; no definition of the specification uses them.             *)
(***************************************************************************)
EXTENDS Integers, FiniteSets

CONSTANTS
    MAX_HDL,   \* entries of the table, 32 in the code
    Params,    \* the struct wait_io_param_ objects malloc() can return
    NoParam,   \* an empty entry of the table
    AsmIds,    \* (message id, port id) pairs the application registers for
    Avrx,      \* the registration for received video
    Copies,    \* [AsmIds -> threads started for it], 4 for 0xf1ea, 1 for others
    App,       \* the thread of the application
    Receivers  \* threads that run FCReceiver::recvFrame()

Ids == AsmIds \cup {Avrx}
Callers == {App} \cup Receivers

ASSUME HandlerAssumption ==
    /\ MAX_HDL \in Nat \ {0}
    /\ NoParam \notin Params
    /\ Avrx \notin AsmIds
    /\ Copies \in [AsmIds -> Nat \ {0}]
    /\ App \notin Receivers

VARIABLES
    g_hdl_tbl,  \* [1 .. MAX_HDL -> a parameter block or NoParam]
    open,       \* [parameter block -> fd > 0]
    id,         \* [parameter block -> what its thread waits for]
    thread,     \* [parameter block -> where its thread is; "none": not allocated]
    call,       \* [caller -> its call in progress]
    met,        \* blocks whose creation found an entry free beside another one's
    late        \* [parameter block -> callbacks begun after its removal]

handlersVars == <<g_hdl_tbl, open, id, thread, call, met, late>>

Table == 1 .. MAX_HDL

\* A call that creates handlers goes from "next" through "scan" and "store",
\* one that removes one through "close" and "clear".
Doing(step, x, left, at, p) == [step |-> step, id |-> x, left |-> left, at |-> at, param |-> p]

Idle == Doing("idle", Avrx, 0, 1, NoParam)

HandlersTypeOK ==
    /\ g_hdl_tbl \in [Table -> Params \cup {NoParam}]
    /\ open \in [Params -> BOOLEAN]
    /\ id \in [Params -> Ids]
    /\ thread \in [Params -> {"none", "new", "loop", "ioctl", "callback"}]
    /\ call \in [Callers -> [step : {"idle", "next", "scan", "store", "close", "clear"},
                             id : Ids, left : Nat, at : Table, param : Params \cup {NoParam}]]
    /\ met \subseteq Params
    /\ late \in [Params -> Nat]

HandlersInit ==
    /\ g_hdl_tbl = [i \in Table |-> NoParam]
    /\ open = [p \in Params |-> FALSE]
    /\ id = [p \in Params |-> Avrx]
    /\ thread = [p \in Params |-> "none"]
    /\ call = [c \in Callers |-> Idle]
    /\ met = {}
    /\ late = [p \in Params |-> 0]

-----------------------------------------------------------------------------
(* create_wait_io_thread(), by any caller.                                   *)

Free(i) == g_hdl_tbl[i] = NoParam

\* The next copy is created, or the call returns.
Advance(c) ==
    call' = [call EXCEPT ![c] = IF @.left = 0 THEN Idle
                                ELSE Doing("next", @.id, @.left, 1, NoParam)]

\* The block is allocated and the device opened.
Allocate(c) ==
    /\ call[c].step = "next"
    /\ \E p \in Params :
          /\ thread[p] = "none"
          /\ thread' = [thread EXCEPT ![p] = "new"]
          /\ open' = [open EXCEPT ![p] = TRUE]
          /\ id' = [id EXCEPT ![p] = call[c].id]
          /\ call' = [call EXCEPT ![c].step = "scan", ![c].left = @ - 1, ![c].param = p]
    /\ UNCHANGED <<g_hdl_tbl, met, late>>

\* malloc() or open() fails.
AllocateFails(c) ==
    /\ call[c].step = "next"
    /\ call' = [call EXCEPT ![c] =
                               IF @.left = 1 THEN Idle ELSE Doing("next", @.id, @.left - 1, 1, NoParam)]
    /\ UNCHANGED <<g_hdl_tbl, open, id, thread, met, late>>

\* Other callers that have found the same entry free and are still to store.
Beside(c) == {d \in Callers \ {c} : call[d].step = "store" /\ call[d].at = call[c].at}

\* Mutant: the entry is taken whether it is free or not.
StartThreadAnywhere(c) ==
    /\ call[c].step = "scan"
    /\ thread' = [thread EXCEPT ![call[c].param] = "loop"]
    /\ call' = [call EXCEPT ![c].step = "store"]
    /\ UNCHANGED <<g_hdl_tbl, open, id, met, late>>

\* The entry looked at is free, and the thread starts.
StartThread(c) ==
    /\ call[c].step = "scan" /\ Free(call[c].at)
    /\ thread' = [thread EXCEPT ![call[c].param] = "loop"]
    /\ call' = [call EXCEPT ![c].step = "store"]
    /\ met' = IF Beside(c) = {} THEN met
              ELSE met \cup {call[c].param} \cup {call[d].param : d \in Beside(c)}
    /\ UNCHANGED <<g_hdl_tbl, open, id, late>>

ScanGoesOn(c) ==
    /\ call[c].step = "scan" /\ ~Free(call[c].at)
    /\ call[c].at < MAX_HDL
    /\ call' = [call EXCEPT ![c].at = @ + 1]
    /\ UNCHANGED <<g_hdl_tbl, open, id, thread, met, late>>

\* The thread does not start, or the table is full: the block goes.
CreateFails(c) ==
    /\ call[c].step = "scan"
    /\ Free(call[c].at) \/ call[c].at = MAX_HDL
    /\ open' = [open EXCEPT ![call[c].param] = FALSE]
    /\ thread' = [thread EXCEPT ![call[c].param] = "none"]
    /\ id' = [id EXCEPT ![call[c].param] = Avrx]
    /\ Advance(c)
    /\ UNCHANGED <<g_hdl_tbl, met, late>>

\* The entry is stored over whatever it holds by now.
Store(c) ==
    /\ call[c].step = "store"
    /\ g_hdl_tbl' = [g_hdl_tbl EXCEPT ![call[c].at] = call[c].param]
    /\ Advance(c)
    /\ UNCHANGED <<open, id, thread, met, late>>

CreateStep(c) ==
    \/ Allocate(c) \/ AllocateFails(c)
    \/ ScanGoesOn(c) \/ StartThread(c) \/ CreateFails(c) \/ Store(c)

-----------------------------------------------------------------------------
(* The calls.                                                                *)

\* add_asm_handler(): its loop drops the results of create_wait_io_thread().
BeginAdd(x) ==
    /\ call[App] = Idle
    /\ call' = [call EXCEPT ![App] = Doing("next", x, Copies[x], 1, NoParam)]
    /\ UNCHANGED <<g_hdl_tbl, open, id, thread, met, late>>

\* The consumer thread cannot be started: -1, before any thread of this call.
AddFails ==
    /\ call[App].step = "next" /\ call[App].id # Avrx /\ call[App].left = Copies[call[App].id]
    /\ call' = [call EXCEPT ![App] = Idle]
    /\ UNCHANGED <<g_hdl_tbl, open, id, thread, met, late>>

\* add_avrx_handler(): a thread that receives video asks once per picture.
AddAvrx(c) ==
    /\ call[c] = Idle
    /\ call' = [call EXCEPT ![c] = Doing("next", Avrx, 1, 1, NoParam)]
    /\ UNCHANGED <<g_hdl_tbl, open, id, thread, met, late>>

\* Mutant: the message of the entry is not compared.
AnyMatches(i, x) == ~Free(i)

Matches(i, x) == ~Free(i) /\ id[g_hdl_tbl[i]] = x

\* del_asm_cmdHandler(): only the first entry that matches goes, and nothing
\* if there is none.
Del(x) ==
    /\ call[App] = Idle
    /\ \E i \in Table :
          /\ Matches(i, x)
          /\ \A j \in 1 .. i - 1 : ~Matches(j, x)
          /\ call' = [call EXCEPT ![App] = Doing("close", x, 0, i, g_hdl_tbl[i])]
    /\ UNCHANGED <<g_hdl_tbl, open, id, thread, met, late>>

\* del_avrx_handler(), with an index that add_avrx_handler() has returned.
DelAvrx ==
    /\ call[App] = Idle
    /\ \E i \in Table :
          /\ Matches(i, Avrx)
          /\ call' = [call EXCEPT ![App] = Doing("close", Avrx, 0, i, g_hdl_tbl[i])]
    /\ UNCHANGED <<g_hdl_tbl, open, id, thread, met, late>>

\* remove_wait_io_thread() reads the entry again.  Closing the device may
\* leave the thread inside its ioctl.
Close ==
    /\ call[App].step = "close"
    /\ LET p == g_hdl_tbl[call[App].at] IN
       IF p # NoParam /\ open[p]
       THEN /\ open' = [open EXCEPT ![p] = FALSE]
            /\ call' = [call EXCEPT ![App] = Doing("clear", @.id, 0, @.at, NoParam)]
       ELSE UNCHANGED open /\ call' = [call EXCEPT ![App] = Idle]
    /\ UNCHANGED <<g_hdl_tbl, id, thread, met, late>>

\* The thread may be gone, and its block freed, before the entry is cleared.
Clear ==
    /\ call[App].step = "clear"
    /\ g_hdl_tbl' = [g_hdl_tbl EXCEPT ![call[App].at] = NoParam]
    /\ call' = [call EXCEPT ![App] = Idle]
    /\ UNCHANGED <<open, id, thread, met, late>>

-----------------------------------------------------------------------------
(* wait_io_thread().                                                         *)

\* The loop condition: with fd > 0 the thread goes into the ioctl, with fd = 0
\* it frees the block and ends.
TestFd(p) ==
    /\ IF open[p]
       THEN thread' = [thread EXCEPT ![p] = "ioctl"] /\ UNCHANGED <<id, met, late>>
       ELSE /\ thread' = [thread EXCEPT ![p] = "none"]
            /\ id' = [id EXCEPT ![p] = Avrx]
            /\ met' = met \ {p}
            /\ late' = [late EXCEPT ![p] = 0]
    /\ UNCHANGED <<g_hdl_tbl, open, call>>

Enter(p) == thread[p] = "loop" /\ TestFd(p)

IoctlFails(p) == thread[p] = "ioctl" /\ TestFd(p)

\* A message: the callback is called, and fd is not looked at again first.
MessageArrives(p) ==
    /\ thread[p] = "ioctl"
    /\ thread' = [thread EXCEPT ![p] = "callback"]
    /\ late' = [late EXCEPT ![p] = IF open[p] THEN @ ELSE @ + 1]
    /\ UNCHANGED <<g_hdl_tbl, open, id, call, met>>

\* Mutant: the loop goes back to the ioctl without reading fd.
CallbackReturnsToIoctl(p) ==
    /\ thread[p] = "callback"
    /\ thread' = [thread EXCEPT ![p] = "ioctl"]
    /\ UNCHANGED <<g_hdl_tbl, open, id, call, met, late>>

CallbackReturns(p) == thread[p] = "callback" /\ TestFd(p)

-----------------------------------------------------------------------------

Call ==
    \/ \E x \in AsmIds : BeginAdd(x) \/ Del(x)
    \/ AddFails \/ DelAvrx \/ Close \/ Clear
    \/ \E c \in Callers : AddAvrx(c) \/ CreateStep(c)

ThreadStep(p) == Enter(p) \/ IoctlFails(p) \/ MessageArrives(p) \/ CallbackReturns(p)

HandlersNext == Call \/ \E p \in Params : ThreadStep(p)

HandlersSafetySpec == HandlersInit /\ [][HandlersNext]_handlersVars

\* Callbacks return, and the thread that called one goes on to its loop
\* condition.  Nothing makes the driver end an ioctl, and nothing makes the
\* callers call.
HandlersSpec == HandlersSafetySpec /\ \A p \in Params : WF_handlersVars(CallbackReturns(p))

-----------------------------------------------------------------------------
(* Properties.                                                               *)

Listed(p) == \E i \in Table : g_hdl_tbl[i] = p

Clearing(i) == call[App].step = "clear" /\ call[App].at = i

\* del_asm_cmdHandler() and remove_wait_io_thread() read the block of an entry
\* without a lock: no entry points to a block that its thread has freed, or to
\* another's, except the one entry that a removal is about to clear.
EntriesAreLive ==
    \A i \in Table : ~Free(i) /\ ~Clearing(i) =>
        /\ thread[g_hdl_tbl[i]] \notin {"none", "new"} /\ open[g_hdl_tbl[i]]
        /\ \A j \in Table : ~Clearing(j) /\ g_hdl_tbl[j] = g_hdl_tbl[i] => j = i

ToStore(p) == \E c \in Callers : call[c].step = "store" /\ call[c].param = p

\* A thread that serves its handler can be found in the table, and so removed,
\* from the store that ends its creation on: unless that creation and another
\* one both found its entry free before either stored.
ServingThreadsAreListed ==
    \A p \in Params :
        open[p] /\ thread[p] # "new" /\ p \notin met =>
            ToStore(p) \/ \E i \in Table : g_hdl_tbl[i] = p /\ ~Clearing(i)

\* remove_wait_io_thread() reads the entry again that its caller found for the
\* message or the video, and closes what the caller meant.  Only a block whose
\* creation met another one's can have taken its place.
RemovalHitsItsOwn ==
    [][\A p \in Params \ met :
          open[p] /\ ~open'[p] /\ thread[p] # "new" => p = call[App].param /\ id[p] = call[App].id]_handlersVars

\* A callback runs at most once after its handler was removed.
OneLateCallback == \A p \in Params : late[p] <= 1

\* A thread whose late callback has begun goes, and its block is freed.
LateThreadsEnd ==
    \A p \in Params : thread[p] = "callback" /\ ~open[p] ~> thread[p] = "none"
=============================================================================
