----------------------------- MODULE NfsExport ------------------------------
(***************************************************************************)
(* An NFS export over the agent (fsal/): threads of the NFS server look    *)
(* names up, read files and list directories (forebay_fsal.c); each such   *)
(* operation is one or more exchanges with the agent, made under the       *)
(* export's lock over one connection (forebay_source.c), whose place in    *)
(* the stream is lost when an exchange fails (forebay_client.c).  At the   *)
(* other end the agent converses on each connection, a request and its     *)
(* reply at a time (internal/dataserver/serve.go), and may be slow, fail   *)
(* to reach its backend, or stop and start.                                *)
(*                                                                         *)
(* Objects are immutable; new ones appear.  The export has one directory,  *)
(* whose names are naturals ordered as their strings are.                  *)
(***************************************************************************)
EXTENDS Integers, FaultBudget, FiniteSets, SequencesExt, Collections

CONSTANTS
    Threads,
    Size,           \* Size[n]: the bytes of the file a name comes to hold
    Dirs,           \* the names that are directories
    FirstNames,     \* the names the store starts with
    Offsets,        \* where clients read from
    Iov,            \* the lengths of a client's buffers, in order
    ListNames,      \* how many names one exchange lists (FOREBAY_LIST_NAMES)
    Enumerates      \* the store: "file" or "s3", by how it pages, or "no"

VARIABLES
    names,          \* the names in the store
    handle,         \* the server's handles: how it knows a name
    task,           \* what each thread is doing
    lock,           \* the threads that hold the source's lock: one or none
    conn,           \* the source's connection
    cooling,        \* next_dial has not come
    up              \* the agent listens

sourceVars == <<lock, conn, cooling>>
nfsVars == <<names, handle, task, sourceVars, up, faults>>

Names == DOMAIN Size \cup Dirs

ASSUME NfsConfig ==
    /\ Size \in [DOMAIN Size -> Nat] /\ Iov \in Seq(Nat) /\ Offsets \subseteq Nat
    /\ Names \subseteq Nat \ {0} /\ IsFiniteSet(Names) /\ FirstNames \subseteq Names
    /\ ListNames \in Nat \ {0}

(* A connection: whether the client lost its place in it (broken), whether *)
(* the agent still has its end, the requests it has not answered, whether  *)
(* it is slow to, and the replies not read.                                *)
NoConn == [made |-> FALSE]
NewConn(open) == [made |-> TRUE, broken |-> FALSE, open |-> open, slow |-> FALSE,
                  requests |-> <<>>, replies |-> <<>>]

(* A broken connection: nothing in it is ever read again. *)
Broken == [NewConn(FALSE) EXCEPT !.broken = TRUE]

(* A handle: a file's size, a directory, or none. *)
Directory == -1
NoHandle == -2

(* A thread's operation, at its first exchange. *)
Want(op, n, off, size) ==
    [op |-> op, at |-> "ask", name |-> n, off |-> off, len |-> 0, size |-> size, after |-> 0,
     iov |-> 1, from |-> off, data |-> <<>>, eof |-> FALSE, status |-> "OK", always |-> {}]
Idle == [Want("none", 0, 0, 0) EXCEPT !.at = "idle"]

NfsInit ==
    /\ names = FirstNames
    /\ handle = [n \in Names |-> NoHandle]
    /\ task = [t \in Threads |-> Idle]
    /\ lock = {} /\ conn = NoConn /\ cooling = FALSE
    /\ up = FALSE /\ faults = 0

-----------------------------------------------------------------------------
(* The agent's answers. *)

Bytes(n, off, len) == [i \in 1..len |-> <<n, off + i>>]

OK(data) == [status |-> "OK", data |-> data]
Error(status) == [status |-> status, data |-> <<>>]

(* ReadRange: a range reaching past the end is refused, not shortened. *)
AnswerRead(q) ==
    IF q.name \notin names \ Dirs THEN Error("FAILED")
    ELSE IF q.off + q.len > Size[q.name] THEN Error("RANGE")
    ELSE OK(Bytes(q.name, q.off, q.len))

(* SizeOf: a directory, or nothing, has no size. *)
AnswerSize(q) ==
    IF q.name \in names \ Dirs THEN OK(<<Size[q.name]>>) ELSE Error("FAILED")

(* List.  A file store lists the names after the last one seen; an object  *)
(* store the keys after it, a directory's being its name and a separator.  *)
KeyOf(n) == IF Enumerates = "s3" /\ n \in Dirs THEN 2 * n + 1 ELSE 2 * n
Below(n, S) == {m \in S : KeyOf(m) < KeyOf(n)}
ByKey(S) ==
    [i \in 1..Cardinality(S) |-> CHOOSE n \in S : Cardinality(Below(n, S)) = i - 1]
Page(s) == SubSeq(s, 1, Smaller(ListNames, Len(s)))

(* The bug of a listing whose order is not that of names. *)
AnswerListUnsorted(q) ==
    IF Enumerates = "no" THEN Error("FAILED")
    ELSE OK(Page(Reverse(ByKey({n \in names : KeyOf(n) > 2 * q.after}))))

AnswerList(q) ==
    IF Enumerates = "no" THEN Error("FAILED")
    ELSE OK(Page(ByKey({n \in names : KeyOf(n) > 2 * q.after})))

Answer(q) ==
    CASE q.op = "read" -> AnswerRead(q)
      [] q.op = "size" -> AnswerSize(q)
      [] q.op = "list" -> AnswerList(q)

(* converse: the next request is answered, or fails for the backend's      *)
(* sake.                                                                   *)
Converse ==
    /\ conn.made /\ conn.open /\ ~conn.slow /\ conn.requests # <<>>
    /\ \E reply \in {Answer(Head(conn.requests)), Error("FAILED")} :
        /\ IF reply = Answer(Head(conn.requests)) THEN UNCHANGED faults ELSE Fault
        /\ conn' = [conn EXCEPT !.requests = Tail(@), !.replies = Append(@, reply)]
    /\ UNCHANGED <<names, handle, task, lock, cooling, up>>

(* The agent takes longer over an answer than the client will wait.  (The  *)
(* backend is slow; the agent's own budget for an exchange is longer.)     *)
Stall ==
    /\ Fault
    /\ conn.made /\ conn.open /\ ~conn.slow /\ conn.requests # <<>>
    /\ conn' = [conn EXCEPT !.slow = TRUE]
    /\ UNCHANGED <<names, handle, task, lock, cooling, up>>

Recover ==
    /\ conn.made /\ conn.slow
    /\ conn' = [conn EXCEPT !.slow = FALSE]
    /\ UNCHANGED <<names, handle, task, lock, cooling, up, faults>>

(* The agent stops, or ends an idle or surplus conversation; what it sent  *)
(* can still be read.                                                      *)
HangUp ==
    /\ Fault
    /\ conn.made /\ conn.open
    /\ conn' = [conn EXCEPT !.open = FALSE, !.slow = FALSE, !.requests = <<>>]
    /\ up' \in {up, FALSE}
    /\ UNCHANGED <<names, handle, task, lock, cooling>>

AgentStarts ==
    /\ ~up
    /\ up' = TRUE
    /\ UNCHANGED <<names, handle, task, sourceVars, faults>>

(* An object is uploaded. *)
Upload(n) ==
    /\ n \notin names
    /\ names' = names \cup {n}
    /\ UNCHANGED <<handle, task, sourceVars, up, faults>>

-----------------------------------------------------------------------------
(* The operations, as what each makes of a reply to its exchange. *)

Ask(k, op) == [op |-> op, name |-> k.name, off |-> k.off, len |-> k.len, after |-> k.after]
Forgotten(k) == [k EXCEPT !.off = 0, !.len = 0, !.size = 0, !.after = 0, !.iov = 0]
Done(k, status) ==
    [Forgotten(k) EXCEPT !.at = "done", !.status = status,
                         !.data = IF status = "OK" THEN @ ELSE <<>>]

(* forebay_lookup and forebay_create_handle: a name the agent gives a size *)
(* for is a file, anything else a directory.                               *)
Known(reply) == IF reply.status = "OK" THEN reply.data[1] ELSE Directory

(* forebay_read2, one buffer: what is asked for is clamped to what the     *)
(* handle says the file holds.                                             *)
Clamped(k) == Smaller(Iov[k.iov], k.size - k.off)

(* The bug of a read that asks for its whole buffer near the end. *)
ReadNextUnclamped(k) ==
    IF k.iov > Len(Iov) \/ k.off >= k.size
    THEN Done([k EXCEPT !.eof = @ \/ k.off >= k.size], "OK")
    ELSE [k EXCEPT !.at = "ask", !.len = Iov[k.iov]]

ReadNext(k) ==
    IF k.iov > Len(Iov) \/ k.off >= k.size
    THEN Done([k EXCEPT !.eof = @ \/ k.off >= k.size], "OK")
    ELSE [k EXCEPT !.at = "ask", !.len = Clamped(k)]

ReadGot(k, reply) ==
    LET n == Len(reply.data) IN
    CASE reply.status = "RANGE" -> Done([k EXCEPT !.eof = TRUE], "OK")
      [] reply.status = "OK" /\ n < k.len ->
            Done([k EXCEPT !.data = @ \o reply.data, !.off = @ + n, !.eof = TRUE], "OK")
      [] reply.status = "OK" /\ n >= k.len ->
            ReadNext([k EXCEPT !.data = @ \o reply.data, !.off = @ + n, !.iov = @ + 1])
      [] OTHER -> Done(k, reply.status)

(* forebay_readdir, one page: a store that refuses has nothing to list,    *)
(* and a page that is not full is the last.                                *)
ListGot(k, reply) ==
    LET page == reply.data
        more == [k EXCEPT !.data = @ \o page, !.after = IF page = <<>> THEN @ ELSE Last(page)]
    IN  CASE reply.status = "REFUSED" -> Done([k EXCEPT !.eof = TRUE], "OK")
          [] reply.status = "OK" /\ Len(page) < ListNames -> Done([more EXCEPT !.eof = TRUE], "OK")
          [] reply.status = "OK" /\ Len(page) >= ListNames -> [more EXCEPT !.at = "ask"]
          [] OTHER -> Done(k, reply.status)

Got(k, reply) ==
    CASE k.op = "size" -> Idle
      [] k.op = "read" -> ReadGot(k, reply)
      [] k.op = "list" -> ListGot(k, reply)

(* A listing makes a handle of every name on its page; one the server      *)
(* already has is kept.                                                    *)
Listed(n) ==
    IF handle[n] # NoHandle THEN handle[n] ELSE IF n \in Dirs THEN Directory ELSE Size[n]

(* The exchange of thread t ends with a reply. *)
Resume(t, reply) ==
    /\ task' = [task EXCEPT ![t] = Got(@, reply)]
    /\ handle' = CASE task[t].op = "size" -> [handle EXCEPT ![task[t].name] = Known(reply)]
                   [] task[t].op = "list" ->
                        [n \in Names |-> IF n \in Range(reply.data) THEN Listed(n) ELSE handle[n]]
                   [] OTHER -> handle

-----------------------------------------------------------------------------
(* The client's half of an exchange. *)

(* A client's call reaches a thread. *)
Lookup(t, n) ==
    /\ task[t] = Idle /\ handle[n] = NoHandle
    /\ task' = [task EXCEPT ![t] = Want("size", n, 0, 0)]
    /\ UNCHANGED <<names, handle, sourceVars, up, faults>>

Read(t, n, off) ==
    /\ task[t] = Idle
    /\ handle[n] >= 0
    /\ task' = [task EXCEPT ![t] = ReadNext(Want("read", n, off, handle[n]))]
    /\ UNCHANGED <<names, handle, sourceVars, up, faults>>

ReadDir(t) ==
    /\ task[t] = Idle
    /\ task' = [task EXCEPT ![t] = [Want("list", 0, 0, 0) EXCEPT !.always = names]]
    /\ UNCHANGED <<names, handle, sourceVars, up, faults>>

(* A thread answers its client. *)
Return(t) ==
    /\ task[t].at = "done"
    /\ task' = [task EXCEPT ![t] = Idle]
    /\ UNCHANGED <<names, handle, sourceVars, up, faults>>

(* A client has all of a listing it wants (DIR_TERMINATE). *)
StopListing(t) ==
    /\ task[t].op = "list" /\ task[t].at = "ask" /\ task[t].data # <<>>
    /\ task' = [task EXCEPT ![t] = Idle]
    /\ UNCHANGED <<names, handle, sourceVars, up, faults>>

(* forebay_release. *)
Release(n) ==
    /\ handle[n] # NoHandle
    /\ \A t \in Threads : task[t].name # n
    /\ handle' = [handle EXCEPT ![n] = NoHandle]
    /\ UNCHANGED <<names, task, sourceVars, up, faults>>

Usable == conn.made /\ ~conn.broken

Sent(c, q) == [c EXCEPT !.requests = Append(@, q)]

(* connect_locked and the sending half of exchange, under the lock.  A     *)
(* live connection is used; a broken one is closed; and the agent is       *)
(* dialled if the window since it last was has passed.                     *)
Send(t) ==
    /\ task[t].at = "ask" /\ lock = {}
    /\ Usable /\ conn.open
    /\ conn' = Sent(conn, Ask(task[t], task[t].op))
    /\ lock' = {t}
    /\ task' = [task EXCEPT ![t].at = "sent"]
    /\ UNCHANGED <<names, handle, cooling, up, faults>>

(* The bug of a connection kept that cannot be written to. *)
SendFailsUnbroken(t) ==
    /\ task[t].at = "ask" /\ lock = {}
    /\ Usable /\ ~conn.open
    /\ Resume(t, Error("FAILED"))
    /\ UNCHANGED <<names, sourceVars, up, faults>>

SendFails(t) ==
    /\ task[t].at = "ask" /\ lock = {}
    /\ Usable /\ ~conn.open
    /\ conn' = Broken
    /\ Resume(t, Error("FAILED"))
    /\ UNCHANGED <<names, lock, cooling, up, faults>>

Dial(t) ==
    /\ task[t].at = "ask" /\ lock = {}
    /\ ~Usable /\ ~cooling
    /\ cooling' = TRUE
    /\ \/ /\ up
          /\ conn' = Sent(NewConn(TRUE), Ask(task[t], task[t].op))
          /\ lock' = {t}
          /\ task' = [task EXCEPT ![t].at = "sent"]
          /\ UNCHANGED handle
       \/ ~up /\ conn' = NoConn /\ Resume(t, Error("FAILED")) /\ UNCHANGED lock
    /\ UNCHANGED <<names, up, faults>>

DialNotYet(t) ==
    /\ task[t].at = "ask" /\ lock = {}
    /\ ~Usable /\ cooling
    /\ conn' = NoConn
    /\ Resume(t, Error("FAILED"))
    /\ UNCHANGED <<names, lock, cooling, up, faults>>

(* exchange reads its reply. *)
Receive(t) ==
    /\ task[t].at = "sent"
    /\ conn.replies # <<>>
    /\ conn' = [conn EXCEPT !.replies = Tail(@)]
    /\ lock' = {}
    /\ Resume(t, Head(conn.replies))
    /\ UNCHANGED <<names, cooling, up, faults>>

(* The bug of a failure that leaves the connection in use. *)
FailUnbroken(t) ==
    /\ task[t].at = "sent"
    /\ conn.replies = <<>>
    /\ ~conn.open \/ conn.slow
    /\ lock' = {}
    /\ Resume(t, Error("FAILED"))
    /\ UNCHANGED <<names, conn, cooling, up, faults>>

(* The bug of a failure that leaves the lock held. *)
FailLocked(t) ==
    /\ task[t].at = "sent"
    /\ conn.replies = <<>>
    /\ ~conn.open \/ conn.slow
    /\ conn' = Broken
    /\ Resume(t, Error("FAILED"))
    /\ UNCHANGED <<names, lock, cooling, up, faults>>

(* fail: the connection ended, or the deadline passed, before the reply.   *)
Fail(t) ==
    /\ task[t].at = "sent"
    /\ conn.replies = <<>>
    /\ ~conn.open \/ conn.slow
    /\ conn' = Broken
    /\ lock' = {}
    /\ Resume(t, Error("FAILED"))
    /\ UNCHANGED <<names, cooling, up, faults>>

(* The window since the last dial passes. *)
Tick ==
    /\ cooling
    /\ cooling' = FALSE
    /\ UNCHANGED <<names, handle, task, lock, conn, up, faults>>

Exchange(t) ==
    Send(t) \/ SendFails(t) \/ Dial(t) \/ DialNotYet(t) \/ Receive(t) \/ Fail(t)

Agent == Converse \/ Recover \/ AgentStarts

Clients ==
    \/ \E t \in Threads, n \in Names : Lookup(t, n)
    \/ \E t \in Threads, n \in Names, off \in Offsets : Read(t, n, off)
    \/ \E t \in Threads : ReadDir(t) \/ Return(t) \/ StopListing(t)
    \/ \E n \in Names : Release(n)

NfsNext ==
    \/ \E t \in Threads : Exchange(t)
    \/ Agent \/ Clients \/ Stall \/ HangUp \/ Tick
    \/ \E n \in Names : Upload(n)

(* A thread gets its turn at the lock (strongly, as others take it too)    *)
(* and goes on while it holds it; the agent starts and answers; time       *)
(* passes.                                                                 *)
NfsSpec ==
    /\ NfsInit /\ [][NfsNext]_nfsVars
    /\ WF_nfsVars(Converse) /\ WF_nfsVars(Recover) /\ WF_nfsVars(AgentStarts)
    /\ WF_nfsVars(Tick)
    /\ \A t \in Threads : SF_nfsVars(Exchange(t)) /\ WF_nfsVars(Return(t))

-----------------------------------------------------------------------------
(* A read that answers without error gives exactly the bytes it was asked  *)
(* for, as many as the file has, and says the end of the file is reached   *)
(* just when it is: no late reply, lost connection or clamping makes it    *)
(* another request's bytes or a shorter file (exchange, fail, read2).      *)
ReadsRight ==
    \A t \in Threads :
        LET k == task[t]
            n == IF k.op = "read" /\ k.at = "done" /\ k.status = "OK"
                 THEN Larger(0, Smaller(SumOver(Iov, DOMAIN Iov), Size[k.name] - k.from)) ELSE 0
        IN  k.op = "read" /\ k.at = "done" /\ k.status = "OK" =>
                /\ k.data = Bytes(k.name, k.from, n)
                /\ k.eof = (k.from + n >= Size[k.name])

(* A name the export takes for a file is one, of the size it believes,     *)
(* whatever exchanges failed or were late while it found out: a size never *)
(* comes from another request's reply (forebay_size, lookup,               *)
(* create_handle).                                                         *)
FilesAreFiles ==
    \A n \in Names : handle[n] >= 0 => n \in names \ Dirs /\ handle[n] = Size[n]

(* A directory listed to its end shows each name once, and every name that *)
(* was there when the listing began, though others appear between its      *)
(* pages (forebay_readdir's cursor is the last name seen).                 *)
ListedOnce ==
    \A t \in Threads :
        LET k == task[t] IN
        k.op = "list" /\ k.at = "done" /\ k.status = "OK" =>
            /\ k.always \subseteq Range(k.data)
            /\ IsInjective(k.data)

(* Every operation is answered, though the agent be away or slow, or other *)
(* threads fail: nobody keeps the lock, and nobody waits for ever.         *)
CallsReturn == \A t \in Threads : task[t].at \in {"ask", "sent"} ~> task[t].at \in {"done", "idle"}

(* Once faults cease, so do failures: a connection that lost its place is  *)
(* replaced, and an agent that is back is found (connect_locked).          *)
ReadsResume == <>[](\A t \in Threads : task[t].op \in {"read", "list"} /\ task[t].at = "done"
                                            => task[t].status = "OK")

=============================================================================
