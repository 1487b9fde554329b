--------------------------- MODULE RpcServerProofs ---------------------------
(***************************************************************************)
(* Proofs about RpcServer, for every number of services, functions,        *)
(* threads, rotators, allocations and log files.                           *)
(*                                                                         *)
(* The inductive invariant has a part for the slow log, which says who has *)
(* each open file, and a part for the tables, which says that every        *)
(* allocation has one owner.  The second needs what the server's users     *)
(* keep to, that a name of a service is registered once: a second          *)
(* registration frees the string that is the key.                          *)
(***************************************************************************)
EXTENDS RpcServer, FiniteSetTheorems, SequenceTheorems, TLAPS

Allocations == [live : BOOLEAN, func : Funcs \cup {None}, marshal : Sigs \cup {None},
                table : Tables(FNames)]

CallRecords == [svc : Services \cup {None}, fname : FNames \cup {None}, json : BOOLEAN,
                start : BOOLEAN, item : {None} \cup 1..MaxAllocs, func : Funcs \cup {None},
                answer : Answers, file : Files]

\* The entries of a table lead to what has been allocated.
Bounded(table, n) ==
  \A name \in DOMAIN table : table[name].key \in 1..n /\ table[name].value \in 1..n

\* The types of the heap and of the calls, which TypeOK leaves open.
HeapOK ==
  /\ heap \in Seq(Allocations) /\ Len(heap) <= MaxAllocs
  /\ Bounded(service_table, Len(heap))
  /\ \A i \in 1..Len(heap) : Bounded(heap[i].table, Len(heap))

CallsOK ==
  /\ call \in [Threads -> CallRecords]
  /\ \A t \in Threads :
       IF pc[t] = "idle"
         THEN call[t] = NoCall
         ELSE /\ phase = "up" /\ call[t].svc \in Services /\ call[t].fname \in FNames
              /\ pc[t] = "found" => call[t].item \in 1..Len(heap)

\* The lock is held by the thread that prints, and it prints to the current
\* file.  A call that began without a log ends without one, unless a rotator is
\* stuck in fclose.
LockOK ==
  \A t \in Threads :
    /\ pc[t] = "printing" <=> slow_log_lock = t
    /\ pc[t] = "printing" => call[t].file = slow_log_fp
    /\ pc[t] \in {"print", "printing"} => slow_log_fp # None
    /\ pc[t] # "idle" => call[t].start \/ slow_log_fp = None \/ \E r \in Rotators : Stuck(r)

\* Every file that was opened is closed, current, about to be current, or about
\* to be closed, and only one of these.
Swapping(r, i) == rpc[r] = "swap" /\ fp[r] = i
Closing(r, i)  == rpc[r] = "close" /\ oldfp[r] = i

FilesOK ==
  /\ phase = "new" => files = 0 /\ slow_log_fp = None /\ ~had_log
  /\ slow_log_fp \in {None, stdout} \cup ((1..files) \ closed)
  /\ slow_log_fp = stdout => files = 0 /\ log_to_stdout
  /\ had_log => slow_log_fp # None
  /\ \A r \in Rotators :
       /\ rpc[r] = "swap"  => fp[r] \in (1..files) \ closed /\ fp[r] # slow_log_fp
       /\ rpc[r] = "close" => /\ oldfp[r] \in {None} \cup ((1..files) \ closed)
                              /\ oldfp[r] # slow_log_fp
       /\ Stuck(r) => ~had_log /\ slow_log_fp # None
  /\ \A r, s \in Rotators :
       /\ rpc[r] = "swap" /\ rpc[s] = "close" => fp[r] # oldfp[s]
       /\ r # s /\ rpc[r] = "swap" /\ rpc[s] = "swap" => fp[r] # fp[s]
       /\ r # s /\ rpc[r] = "close" /\ rpc[s] = "close" => oldfp[r] # oldfp[s]
  /\ \A i \in (1..files) \ closed :
       slow_log_fp = i \/ \E r \in Rotators : Swapping(r, i) \/ Closing(r, i)

\* The allocation of a service and its functions.
At(svc) == service_table[svc].value
FTable(svc) == heap[At(svc)].table

\* Every entry of a table is live, owns its key, and is not shared.
TablesOK ==
  /\ \A svc \in DOMAIN service_table :
       /\ service_table[svc].key = At(svc) /\ heap[At(svc)].live
       /\ \A fname \in DOMAIN FTable(svc) :
            /\ FTable(svc)[fname].key = FTable(svc)[fname].value
            /\ heap[FTable(svc)[fname].value].live
            /\ \A s \in DOMAIN service_table :
                 /\ FTable(svc)[fname].value # At(s)
                 /\ \A n \in DOMAIN FTable(s) :
                      FTable(svc)[fname].value = FTable(s)[n].value => svc = s /\ fname = n
  /\ \A svc, s \in DOMAIN service_table : At(svc) = At(s) => svc = s

\* The history agrees with the tables.
KnownOK ==
  /\ \A svc \in Services : <<svc, None, None>> \in known <=> svc \in DOMAIN service_table
  /\ \A svc \in Services, fname \in FNames, f \in Funcs :
       <<svc, fname, f>> \in known <=>
         /\ svc \in DOMAIN service_table /\ fname \in DOMAIN FTable(svc)
         /\ heap[FTable(svc)[fname].value].func = f

\* The functions in the tables are functions.
FuncsOK ==
  \A svc \in DOMAIN service_table : \A fname \in DOMAIN FTable(svc) :
    heap[FTable(svc)[fname].value].func \in Funcs

\* A call under way has found what the tables lead to.
FoundOK ==
  \A t \in Threads :
    pc[t] \in {"found", "ran"} =>
      /\ call[t].svc \in DOMAIN service_table
      /\ call[t].fname \in DOMAIN FTable(call[t].svc)
      /\ call[t].item = FTable(call[t].svc)[call[t].fname].value

TypeInv == TypeOK /\ HeapOK /\ CallsOK
LogInv  == LockOK /\ FilesOK
RegInv  == TablesOK /\ KnownOK /\ FuncsOK /\ FoundOK /\ DispatchesKnown

Inv == TypeInv /\ LogInv /\ (RegisterOnce => RegInv)

-----------------------------------------------------------------------------
(* The operators on tables and on the heap.                                *)

\* A table is a function from some of the names to entries.
LEMMA TableFacts ==
  ASSUME NEW names, NEW table
  PROVE  table \in Tables(names) <=>
           DOMAIN table \subseteq names /\ table \in [DOMAIN table -> Entries]
  BY DEF Tables

\* An insertion makes a table of a table.
LEMMA InsertType ==
  ASSUME NEW names, NEW table \in Tables(names), NEW name \in names, NEW i \in 1..MaxAllocs
  PROVE  Insert(table, name, i) \in Tables(names)
  <1> DEFINE T == Insert(table, name, i)
  <1>1. DOMAIN table \subseteq names /\ table \in [DOMAIN table -> Entries] BY TableFacts
  <1>2. DOMAIN T = DOMAIN table \cup {name} BY DEF Insert
  <1>3. \A n \in DOMAIN table : n # name => T[n] = table[n] BY DEF Insert
  <1>4. T[name] \in Entries BY <1>1 DEF Insert, Entries
  <1>5. T \in [DOMAIN T -> Entries]
    <2>1. \A n \in DOMAIN T : T[n] \in Entries BY <1>1, <1>2, <1>3, <1>4
    <2>2. T = [n \in DOMAIN T |-> T[n]] BY DEF Insert
    <2> HIDE DEF T
    <2> QED BY <2>1, <2>2
  <1> QED BY <1>1, <1>2, <1>5, TableFacts

\* No name is in the empty table.
LEMMA NoTableFacts ==
  ASSUME NEW names
  PROVE  NoTable \in Tables(names) /\ DOMAIN NoTable = {}
  BY TableFacts DEF NoTable, Entries

\* A heap without some of its allocations.
LEMMA FreeFacts ==
  ASSUME NEW h \in Seq(Allocations), NEW is
  PROVE  /\ Free(h, is) \in Seq(Allocations) /\ Len(Free(h, is)) = Len(h)
         /\ \A i \in 1..Len(h) :
              /\ Free(h, is)[i].func = h[i].func /\ Free(h, is)[i].marshal = h[i].marshal
              /\ Free(h, is)[i].table = h[i].table
              /\ Free(h, is)[i].live = (h[i].live /\ i \notin is)
  <1> DEFINE F == Free(h, is)
  <1>1. Len(h) \in Nat /\ DOMAIN h = 1..Len(h) /\ \A i \in 1..Len(h) : h[i] \in Allocations
    BY LenProperties, ElementOfSeq
  <1>2. DOMAIN F = 1..Len(h) BY <1>1 DEF Free
  <1>3. ASSUME NEW i \in 1..Len(h)
        PROVE  /\ F[i] \in Allocations
               /\ F[i].func = h[i].func /\ F[i].marshal = h[i].marshal /\ F[i].table = h[i].table
               /\ F[i].live = (h[i].live /\ i \notin is)
    <2>1. h[i] \in Allocations BY <1>1
    <2>2. CASE i \in is
      <3>1. F[i] = [h[i] EXCEPT !.live = FALSE] BY <1>1, <2>2 DEF Free
      <3> QED BY <2>1, <2>2, <3>1 DEF Allocations
    <2>3. CASE i \notin is
      <3>1. F[i] = h[i] BY <1>1, <2>3 DEF Free
      <3> QED BY <2>1, <2>3, <3>1 DEF Allocations
    <2> QED BY <2>2, <2>3
  <1>4. F \in [1..Len(h) -> Allocations]
    <2>1. F = [i \in 1..Len(h) |-> F[i]] BY <1>1 DEF Free
    <2> HIDE DEF F
    <2> QED BY <1>3, <2>1
  <1>5. F \in Seq(Allocations) BY <1>1, <1>4, SeqDef
  <1>6. Len(F) = Len(h)
    <2> HIDE DEF F
    <2> QED BY <1>1, <1>2, <1>5, LenProperties
  <1> QED BY <1>3, <1>5, <1>6

\* A service or a function is allocated at the end of the heap.
LEMMA AppendFacts ==
  ASSUME NEW h \in Seq(Allocations), NEW a \in Allocations
  PROVE  /\ Append(h, a) \in Seq(Allocations) /\ Len(Append(h, a)) = Len(h) + 1
         /\ \A i \in 1..Len(h) : Append(h, a)[i] = h[i]
         /\ Append(h, a)[Len(h) + 1] = a
         /\ Len(h) \in Nat
  BY AppendProperties, LenProperties

\* What is allocated is an allocation.
LEMMA NewFacts ==
  /\ Service \in Allocations
  /\ \A f \in Funcs, sig \in Sigs : Item(f, sig) \in Allocations
  BY NoTableFacts DEF Service, Item, Allocations

\* What the heap holds, field by field.
LEMMA HeapFacts ==
  ASSUME HeapOK
  PROVE  /\ heap \in Seq(Allocations) /\ Len(heap) \in Nat /\ DOMAIN heap = 1..Len(heap)
         /\ \A i \in 1..Len(heap) :
              /\ heap[i].live \in BOOLEAN /\ heap[i].func \in Funcs \cup {None}
              /\ heap[i].marshal \in Sigs \cup {None} /\ heap[i].table \in Tables(FNames)
              /\ DOMAIN heap[i].table \subseteq FNames
         /\ Bounded(service_table, Len(heap))
         /\ \A i \in 1..Len(heap) : Bounded(heap[i].table, Len(heap))
  <1>1. heap \in Seq(Allocations) /\ Len(heap) \in Nat /\ DOMAIN heap = 1..Len(heap)
    BY LenProperties DEF HeapOK
  <1>2. ASSUME NEW i \in 1..Len(heap)
        PROVE  /\ heap[i].live \in BOOLEAN /\ heap[i].func \in Funcs \cup {None}
               /\ heap[i].marshal \in Sigs \cup {None} /\ heap[i].table \in Tables(FNames)
    <2>1. heap[i] \in Allocations BY <1>1, ElementOfSeq
    <2> QED BY <2>1 DEF Allocations
  <1> QED BY <1>1, <1>2, TableFacts DEF HeapOK

\* A function is registered: the item is appended, its service's table leads to
\* it, and an item it replaces is freed.
LEMMA RegisteredFacts ==
  ASSUME TypeInv, Len(heap) < MaxAllocs, NEW svc \in DOMAIN service_table,
         NEW f \in Funcs, NEW fname \in FNames, NEW sig \in Sigs
  PROVE  LET R   == Registered(svc, f, fname, sig)
             new == Len(heap) + 1
         IN /\ R \in Seq(Allocations) /\ Len(R) = new
            /\ R[new] = Item(f, sig)
            /\ \A i \in 1..Len(heap) :
                 /\ R[i].func = heap[i].func /\ R[i].marshal = heap[i].marshal
                 /\ R[i].table = IF i = At(svc) THEN Insert(heap[i].table, fname, new)
                                                ELSE heap[i].table
                 /\ fname \notin DOMAIN FTable(svc) => R[i].live = heap[i].live
  <1> DEFINE s   == At(svc)
             new == Len(heap) + 1
             old == {heap[s].table[n].value : n \in {fname} \cap DOMAIN heap[s].table}
             F   == Free(heap, old)
             A   == Append(F, Item(f, sig))
             T   == Insert(A[s].table, fname, new)
             R   == Registered(svc, f, fname, sig)
  <1>0. /\ heap \in Seq(Allocations) /\ Len(heap) \in Nat /\ s \in 1..Len(heap) /\ new \in 1..MaxAllocs
        /\ \A i \in 1..Len(heap) : heap[i].live \in BOOLEAN
    <2>1. heap \in Seq(Allocations) /\ Len(heap) \in Nat BY LenProperties DEF TypeInv, HeapOK
    <2>2. s \in 1..Len(heap) BY DEF TypeInv, HeapOK, Bounded, At
    <2>3. new \in 1..MaxAllocs BY <2>1, ServerAssumption
    <2>4. \A i \in 1..Len(heap) : heap[i].live \in BOOLEAN BY HeapFacts DEF TypeInv
    <2> QED BY <2>1, <2>2, <2>3, <2>4
  <1>1. R = [A EXCEPT ![s] = [A[s] EXCEPT !.table = T]]
    BY DEF Registered, At
  <1> HIDE DEF old, R
  <1>2. /\ F \in Seq(Allocations) /\ Len(F) = Len(heap)
        /\ \A i \in 1..Len(heap) :
             /\ F[i].func = heap[i].func /\ F[i].marshal = heap[i].marshal
             /\ F[i].table = heap[i].table
             /\ F[i].live = (heap[i].live /\ i \notin old)
    BY <1>0, FreeFacts
  <1> HIDE DEF F
  <1>3. /\ A \in Seq(Allocations) /\ Len(A) = new /\ A[new] = Item(f, sig)
        /\ \A i \in 1..Len(heap) : A[i] = F[i]
    BY <1>2, NewFacts, AppendFacts
  <1> HIDE DEF A
  <1>4. A[s] \in Allocations /\ A[s].table = heap[s].table
    BY <1>0, <1>2, <1>3, ElementOfSeq
  <1>5. T \in Tables(FNames)
    BY <1>0, <1>4, InsertType DEF Allocations
  <1>6. T = Insert(heap[s].table, fname, new) BY <1>4
  <1> HIDE DEF T
  <1>7. /\ [A[s] EXCEPT !.table = T] \in Allocations
        /\ [A[s] EXCEPT !.table = T].table = T
        /\ [A[s] EXCEPT !.table = T].func = A[s].func
        /\ [A[s] EXCEPT !.table = T].marshal = A[s].marshal
        /\ [A[s] EXCEPT !.table = T].live = A[s].live
    BY <1>4, <1>5 DEF Allocations
  <1>8. /\ R \in Seq(Allocations) /\ Len(R) = new
        /\ \A j \in 1..new : R[j] = IF j = s THEN [A[s] EXCEPT !.table = T] ELSE A[j]
    BY <1>0, <1>1, <1>3, <1>7, ExceptSeq
  <1>9. fname \notin DOMAIN FTable(svc) => old = {}
    BY DEF FTable, At, old
  <1> HIDE DEF new
  <1>10. \A i \in 1..Len(heap) : i \in 1..new /\ i # new BY <1>0 DEF new
  <1>11. new \in 1..new /\ new # s BY <1>0, <1>10 DEF new
  <1>12. ASSUME NEW i \in 1..Len(heap)
         PROVE  /\ R[i].func = heap[i].func /\ R[i].marshal = heap[i].marshal
                /\ R[i].table = IF i = s THEN Insert(heap[i].table, fname, new) ELSE heap[i].table
                /\ fname \notin DOMAIN FTable(svc) => R[i].live = heap[i].live
    <2>1. i \in 1..new /\ A[i] = F[i] /\ R[i] = IF i = s THEN [A[s] EXCEPT !.table = T] ELSE A[i]
      BY <1>3, <1>8, <1>10
    <2>2. R[i].func = F[i].func /\ R[i].marshal = F[i].marshal /\ R[i].live = F[i].live
      BY <1>7, <2>1
    <2>3. R[i].table = IF i = s THEN Insert(heap[i].table, fname, new) ELSE heap[i].table
      BY <1>2, <1>6, <1>7, <2>1
    <2>4. fname \notin DOMAIN FTable(svc) => F[i].live = heap[i].live
      BY <1>0, <1>2, <1>9
    <2> QED BY <1>2, <2>2, <2>3, <2>4
  <1> QED BY <1>3, <1>8, <1>11, <1>12 DEF R, new

-----------------------------------------------------------------------------
(* The parts of the invariant that a step does not touch.                  *)

\* The log's part depends on the log, the rotators and the calls.
LEMMA LogUnchanged ==
  ASSUME LogInv, UNCHANGED <<logVars, rotVars, pc, call>>, phase' = "new" => phase = "new"
  PROVE  LogInv'
  BY DEF LogInv, LockOK, FilesOK, Swapping, Closing, Stuck, logVars, rotVars

\* The tables' part depends on the tables and the calls.
LEMMA RegUnchanged ==
  ASSUME RegInv, UNCHANGED <<service_table, heap, known, pc, call>>
  PROVE  RegInv'
  <1>1. TablesOK' BY DEF RegInv, TablesOK, At, FTable
  <1>2. KnownOK' BY DEF RegInv, KnownOK, At, FTable
  <1>3. FuncsOK' BY DEF RegInv, FuncsOK, At, FTable
  <1>4. FoundOK' BY DEF RegInv, FoundOK, At, FTable
  <1>5. DispatchesKnown' BY DEF RegInv, DispatchesKnown
  <1> QED BY <1>1, <1>2, <1>3, <1>4, <1>5 DEF RegInv

\* The heap's types depend on the heap and the services alone.
LEMMA HeapUnchanged ==
  ASSUME HeapOK, UNCHANGED regVars
  PROVE  HeapOK'
  BY DEF HeapOK, Bounded, regVars

\* Init establishes every part.
LEMMA InitInv == Init => Inv
  <1> SUFFICES ASSUME Init PROVE Inv OBVIOUS
  <1>0. log_to_stdout \in BOOLEAN /\ had_log \in BOOLEAN /\ ~had_log
    BY Zenon DEF Init
  <1>1. TypeOK
    <2>1. phase \in {"new", "up", "final"} /\ heap = <<>> /\ service_table \in Tables(Services)
      BY NoTableFacts DEF Init
    <2>2. /\ slow_log_fp \in Files /\ slow_log_lock \in Threads \cup {None}
          /\ files \in 0..MaxFiles /\ closed \subseteq 1..files
      BY ServerAssumption DEF Init, Files
    <2>3. /\ pc \in [Threads -> {"idle", "enter", "found", "ran", "print", "printing", "done"}]
          /\ \A t \in Threads : call[t].answer \in Answers
      BY DEF Init, NoCall, Answers
    <2>4. /\ rpc \in [Rotators -> {"idle", "swap", "close"}]
          /\ fp \in [Rotators -> Files] /\ oldfp \in [Rotators -> Files]
      BY DEF Init, Files
    <2>5. /\ marshal_table \subseteq Sigs
          /\ known \subseteq Services \X (FNames \cup {None}) \X (Funcs \cup {None})
      BY DEF Init
    <2> QED BY <1>0, <2>1, <2>2, <2>3, <2>4, <2>5 DEF TypeOK
  <1>2. HeapOK
    <2>1. heap \in Seq(Allocations) /\ Len(heap) = 0 BY EmptySeq DEF Init
    <2> QED BY <2>1, NoTableFacts, ServerAssumption DEF Init, HeapOK, Bounded
  <1>3. CallsOK
    BY DEF Init, CallsOK, CallRecords, NoCall, Answers, Files
  <1>4. LogInv
    <2>1. LockOK BY ServerAssumption DEF Init, LockOK
    <2>2. files = 0 /\ (1..0) = {} /\ ~(0 > 0) BY DEF Init
    <2>3. /\ slow_log_fp = None /\ slow_log_fp # stdout
          /\ \A r \in Rotators : rpc[r] = "idle"
      BY ServerAssumption DEF Init, stdout
    <2>4. FilesOK BY <1>0, <2>2, <2>3 DEF FilesOK, Stuck
    <2> QED BY <2>1, <2>4 DEF LogInv
  <1>5. RegInv
    <2>1. TablesOK /\ FuncsOK BY NoTableFacts DEF Init, TablesOK, FuncsOK
    <2>2. KnownOK BY NoTableFacts DEF Init, KnownOK
    <2>3. FoundOK BY DEF Init, FoundOK
    <2>4. DispatchesKnown BY DEF Init, DispatchesKnown, NoCall
    <2> QED BY <2>1, <2>2, <2>3, <2>4 DEF RegInv
  <1> QED BY <1>1, <1>2, <1>3, <1>4, <1>5 DEF Inv, TypeInv

\* searpc_server_init opens at most the first file.
LEMMA InitStep ==
  ASSUME Inv, searpc_server_init
  PROVE  Inv'
  <1> USE DEF Inv
  <1>1. /\ \A t \in Threads : pc[t] = "idle" BY DEF TypeInv, CallsOK, searpc_server_init
  <1>2. \A r \in Rotators : rpc[r] = "idle"
    BY ServerAssumption DEF TypeInv, TypeOK, LogInv, FilesOK, searpc_server_init
  <1>3. PICK log \in {None, stdout, 1} :
          /\ slow_log_fp' = log /\ log_to_stdout' = (log = stdout)
          /\ files' = (IF log = 1 THEN 1 ELSE 0) /\ had_log' = (log # None)
    BY DEF searpc_server_init
  <1>c. closed = {} BY DEF TypeInv, TypeOK, LogInv, FilesOK, searpc_server_init
  <1>4. TypeOK'
    <2>1. log_to_stdout' \in BOOLEAN /\ had_log' \in BOOLEAN BY <1>3, Zenon
    <2>2. slow_log_fp' \in Files /\ files' \in 0..MaxFiles /\ closed' \subseteq 1..files'
      BY <1>3, <1>c, ServerAssumption DEF searpc_server_init, Files, stdout
    <2> QED BY <2>1, <2>2 DEF TypeInv, TypeOK, searpc_server_init, rotVars
  <1>5. HeapOK' BY DEF TypeInv, HeapOK, Bounded, searpc_server_init
  <1>6. CallsOK' BY <1>1 DEF TypeInv, CallsOK, searpc_server_init
  <1>7. LockOK'
    BY <1>1 DEF LogInv, LockOK, searpc_server_init
  <1>8. FilesOK'
    <2>1. had_log' <=> log # None BY <1>3, Zenon
    <2>2. log_to_stdout' <=> log = stdout BY <1>3, Zenon
    <2>3. \A r \in Rotators : rpc'[r] = "idle" BY <1>2 DEF searpc_server_init, rotVars
    <2>4. slow_log_fp' = log /\ files' = (IF log = 1 THEN 1 ELSE 0) /\ closed' = {}
          /\ phase' = "up" /\ log \in {None, 0, 1} /\ None \notin Nat
      BY <1>3, <1>c, ServerAssumption DEF searpc_server_init, stdout
    <2>5. \A i \in (1..files') \ closed' : slow_log_fp' = i BY <2>4
    <2>6. slow_log_fp' \in {None, stdout} \cup ((1..files') \ closed')
      BY <2>4 DEF stdout
    <2>7. slow_log_fp' = stdout => files' = 0 /\ log_to_stdout'
      BY <2>2, <2>4 DEF stdout
    <2>8. had_log' => slow_log_fp' # None BY <2>1, <2>4
    <2> QED BY <2>3, <2>4, <2>5, <2>6, <2>7, <2>8 DEF FilesOK, Swapping, Closing, Stuck
  <1>9. RegInv => RegInv' BY RegUnchanged DEF searpc_server_init
  <1> QED BY <1>4, <1>5, <1>6, <1>7, <1>8, <1>9 DEF TypeInv, LogInv

-----------------------------------------------------------------------------
(* The rotators.                                                           *)

\* Rotation preserves the invariant: the lock keeps the swap away from a thread
\* that prints.
LEMMA RotatorStep ==
  ASSUME Inv, NEW r \in Rotators, searpc_server_reopen_slow_log(r)
  PROVE  Inv'
  <1> USE DEF Inv
  <1>f. /\ files \in Nat /\ TypeOK /\ LockOK /\ FilesOK /\ MaxFiles \in Nat /\ None \notin Nat
        /\ None \notin Threads
    BY ServerAssumption DEF TypeInv, TypeOK, LogInv
  <1>r. CASE UNCHANGED <<regVars, pc, call>> /\ TypeOK' /\ LogInv'
    <2>1. HeapOK' BY <1>r, HeapUnchanged DEF TypeInv
    <2>2. CallsOK' BY <1>r DEF TypeInv, CallsOK, regVars
    <2>3. RegInv => RegInv' BY <1>r, RegUnchanged DEF regVars
    <2> QED BY <1>r, <2>1, <2>2, <2>3 DEF TypeInv
  <1>1. CASE reopen_slow_log_Open(r)
    <2>1. TypeOK' BY <1>f, <1>1 DEF reopen_slow_log_Open, TypeOK, Files, regVars
    <2>2. LockOK'
      <3>1. \A x \in Rotators : Stuck(x) => Stuck(x)'
        BY <1>f, <1>1 DEF reopen_slow_log_Open, Stuck, TypeOK
      <3> QED BY <1>f, <1>1, <3>1 DEF reopen_slow_log_Open, LockOK
    <2>3. FilesOK'
      <3>1. \A x \in Rotators : fp[x] # files + 1 \/ rpc[x] # "swap"
        BY <1>f DEF FilesOK
      <3>2. slow_log_fp \in {None} \cup 1..files /\ files + 1 \notin closed
        BY <1>f, <1>1 DEF FilesOK, TypeOK, reopen_slow_log_Open
      <3>3. ASSUME NEW i \in (1..files') \ closed'
            PROVE  slow_log_fp' = i \/ \E x \in Rotators : Swapping(x, i)' \/ Closing(x, i)'
        <4>1. CASE i = files + 1
          BY <1>f, <1>1, <4>1 DEF reopen_slow_log_Open, TypeOK, Swapping
        <4>2. CASE i # files + 1
          <5>1. i \in (1..files) \ closed BY <1>f, <1>1, <3>3, <4>2 DEF reopen_slow_log_Open
          <5>2. rpc[r] = "idle" BY <1>1 DEF reopen_slow_log_Open
          <5> QED BY <1>f, <1>1, <5>1, <5>2 DEF reopen_slow_log_Open, TypeOK, FilesOK, Swapping, Closing
        <4> QED BY <4>1, <4>2
      <3> QED BY <1>f, <1>1, <3>1, <3>2, <3>3 DEF reopen_slow_log_Open, TypeOK, FilesOK, Stuck, regVars
    <2> QED BY <1>1, <1>r, <2>1, <2>2, <2>3 DEF reopen_slow_log_Open, LogInv
  <1>2. CASE reopen_slow_log_Swap(r)
    <2>0. files > 0 /\ fp[r] \in 1..files /\ slow_log_fp \in {None} \cup 1..files
      BY <1>f, <1>2 DEF reopen_slow_log_Swap, FilesOK
    <2>1. TypeOK' BY <1>f, <1>2, <2>0 DEF reopen_slow_log_Swap, TypeOK, Files, regVars
    <2>2. LockOK'
      <3>1. \A x \in Rotators : Stuck(x) => Stuck(x)'
        BY <1>f, <1>2 DEF reopen_slow_log_Swap, Stuck, TypeOK
      <3>2. slow_log_fp = None => Stuck(r)'
        BY <1>f, <1>2 DEF reopen_slow_log_Swap, Stuck, TypeOK
      <3> QED BY <1>f, <1>2, <2>0, <3>1, <3>2 DEF reopen_slow_log_Swap, LockOK
    <2>3. FilesOK'
      <3>3. ASSUME NEW i \in (1..files') \ closed'
            PROVE  slow_log_fp' = i \/ \E x \in Rotators : Swapping(x, i)' \/ Closing(x, i)'
        <4>1. CASE slow_log_fp = i
          BY <1>f, <1>2, <4>1 DEF reopen_slow_log_Swap, TypeOK, Closing
        <4>2. CASE slow_log_fp # i
          <5>1. i \in (1..files) \ closed BY <1>2, <3>3 DEF reopen_slow_log_Swap
          <5>2. PICK x \in Rotators : Swapping(x, i) \/ Closing(x, i)
            BY <1>f, <4>2, <5>1 DEF FilesOK
          <5> QED BY <1>f, <1>2, <5>2 DEF reopen_slow_log_Swap, TypeOK, Swapping, Closing
        <4> QED BY <4>1, <4>2
      <3> QED BY <1>f, <1>2, <2>0, <3>3 DEF reopen_slow_log_Swap, TypeOK, FilesOK, Stuck, stdout, regVars
    <2> QED BY <1>2, <1>r, <2>1, <2>2, <2>3 DEF reopen_slow_log_Swap, LogInv
  <1>3. CASE reopen_slow_log_Close(r)
    <2>0. oldfp[r] \in 1..files /\ closed' = closed \cup {oldfp[r]}
      BY <1>f, <1>3 DEF reopen_slow_log_Close, FilesOK
    <2>1. TypeOK' BY <1>f, <1>3, <2>0 DEF reopen_slow_log_Close, TypeOK, Files, regVars
    <2>2. LockOK'
      <3>1. \A x \in Rotators : Stuck(x) => Stuck(x)'
        BY <1>f, <1>3 DEF reopen_slow_log_Close, Stuck, TypeOK
      <3> QED BY <1>f, <1>3, <3>1 DEF reopen_slow_log_Close, LockOK
    <2>3. FilesOK'
      <3>3. ASSUME NEW i \in (1..files') \ closed'
            PROVE  slow_log_fp' = i \/ \E x \in Rotators : Swapping(x, i)' \/ Closing(x, i)'
        <4>1. i \in (1..files) \ closed /\ i # oldfp[r]
          BY <1>3, <2>0, <3>3 DEF reopen_slow_log_Close
        <4>2. CASE slow_log_fp = i BY <1>3, <4>2 DEF reopen_slow_log_Close
        <4>3. CASE slow_log_fp # i
          <5>2. PICK x \in Rotators : Swapping(x, i) \/ Closing(x, i)
            BY <1>f, <4>1, <4>3 DEF FilesOK
          <5>3. x # r BY <1>3, <4>1, <5>2 DEF reopen_slow_log_Close, Swapping, Closing
          <5> QED BY <1>f, <1>3, <5>2, <5>3 DEF reopen_slow_log_Close, TypeOK, Swapping, Closing
        <4> QED BY <4>2, <4>3
      <3> QED BY <1>f, <1>3, <2>0, <3>3 DEF reopen_slow_log_Close, TypeOK, FilesOK, Stuck, regVars
    <2> QED BY <1>3, <1>r, <2>1, <2>2, <2>3 DEF reopen_slow_log_Close, LogInv
  <1> QED BY <1>1, <1>2, <1>3 DEF searpc_server_reopen_slow_log

-----------------------------------------------------------------------------
(* The calls.                                                              *)

\* While no key dangles a look-up loses no name.
LEMMA NoneDangling ==
  ASSUME HeapOK, TablesOK
  PROVE  /\ Dangling(service_table) = {}
         /\ \A svc \in DOMAIN service_table : Dangling(FTable(svc)) = {}
  BY DEF TablesOK, Dangling, At, FTable

\* A call changes its thread, the lock and nothing else: what remains to show.
LEMMA CallTypes ==
  ASSUME Inv, NEW t \in Threads, UNCHANGED <<regVars, rotVars>>,
         UNCHANGED <<log_to_stdout, had_log, slow_log_fp, files, closed>>,
         NEW place \in {"idle", "enter", "found", "ran", "print", "printing", "done"},
         NEW c \in CallRecords,
         pc' = [pc EXCEPT ![t] = place], call' = [call EXCEPT ![t] = c],
         slow_log_lock' \in Threads \cup {None},
         IF place = "idle" THEN c = NoCall
         ELSE /\ phase = "up" /\ c.svc \in Services /\ c.fname \in FNames
              /\ place = "found" => c.item \in 1..Len(heap),
         LockOK'
  PROVE  TypeInv' /\ LogInv'
  <1> USE DEF Inv
  <1>1. TypeOK'
    <2>1. \A x \in Threads : call'[x].answer \in Answers
      BY DEF TypeInv, TypeOK, CallsOK, CallRecords
    <2> QED BY <2>1 DEF TypeInv, TypeOK, regVars, rotVars
  <1>2. HeapOK' BY HeapUnchanged DEF TypeInv
  <1>3. CallsOK'
    BY DEF TypeInv, TypeOK, CallsOK, regVars
  <1>4. FilesOK'
    BY DEF LogInv, FilesOK, Swapping, Closing, Stuck, regVars, rotVars
  <1> QED BY <1>1, <1>2, <1>3, <1>4 DEF TypeInv, LogInv

\* The tables' part, when the step of one thread leaves them alone.
LEMMA CallTables ==
  ASSUME RegInv, NEW t \in Threads, UNCHANGED regVars,
         \A x \in Threads \ {t} : pc'[x] = pc[x] /\ call'[x] = call[x],
         pc'[t] \in {"found", "ran"} =>
           /\ call'[t].svc \in DOMAIN service_table
           /\ call'[t].fname \in DOMAIN FTable(call'[t].svc)
           /\ call'[t].item = FTable(call'[t].svc)[call'[t].fname].value,
         LET k == call'[t] IN
           /\ k.answer = "value" => <<k.svc, k.fname, k.func>> \in known
           /\ k.answer = "501"   => <<k.svc, None, None>> \notin known
           /\ k.answer = "500"   => /\ <<k.svc, None, None>> \in known
                                    /\ \A f \in Funcs : <<k.svc, k.fname, f>> \notin known
  PROVE  RegInv'
  <1>1. TablesOK' BY DEF RegInv, TablesOK, At, FTable, regVars
  <1>2. KnownOK' BY DEF RegInv, KnownOK, At, FTable, regVars
  <1>3. FuncsOK' BY DEF RegInv, FuncsOK, At, FTable, regVars
  <1>4. FoundOK' BY DEF RegInv, FoundOK, At, FTable, regVars
  <1>5. DispatchesKnown' BY DEF RegInv, DispatchesKnown, regVars
  <1> QED BY <1>1, <1>2, <1>3, <1>4, <1>5 DEF RegInv

\* A call enters: the clock is read if and only if there is a log.
LEMMA EnterStep ==
  ASSUME Inv, NEW t \in Threads, call_function_Enter(t)
  PROVE  Inv'
  <1> USE DEF Inv
  <1>1. PICK svc \in Services, fname \in FNames, json \in BOOLEAN :
          call' = [call EXCEPT ![t] = [NoCall EXCEPT !.svc = svc, !.fname = fname,
                                         !.json = json, !.start = slow_log_fp # None]]
    BY DEF call_function_Enter
  <1> DEFINE c == [NoCall EXCEPT !.svc = svc, !.fname = fname,
                                 !.json = json, !.start = slow_log_fp # None]
  <1>2. /\ c \in CallRecords /\ c.svc = svc /\ c.fname = fname /\ c.answer = "none"
        /\ c.start = (slow_log_fp # None)
    BY DEF NoCall, CallRecords, Answers, Files
  <1>3. call' = [call EXCEPT ![t] = c] BY <1>1
  <1> HIDE DEF c
  <1>4. call'[t] = c /\ pc'[t] = "enter" BY <1>3 DEF call_function_Enter, TypeInv, TypeOK, CallsOK
  <1>5. LockOK'
    BY <1>2, <1>3, <1>4
    DEF call_function_Enter, TypeInv, TypeOK, CallsOK, LogInv, LockOK, Stuck, logVars, rotVars
  <1>6. TypeInv' /\ LogInv'
    BY <1>2, <1>3, <1>5, CallTypes DEF call_function_Enter, TypeInv, TypeOK, logVars
  <1>7. RegInv => RegInv'
    BY <1>2, <1>3, <1>4, CallTables DEF call_function_Enter, TypeInv, TypeOK, CallsOK
  <1> QED BY <1>6, <1>7

\* What a look-up may end in.
LEMMA LookupOutcomes ==
  ASSUME Inv, NEW t \in Threads, call_function_Lookup(t)
  PROVE  \/ \E code \in {"500", "501", "511"} :
              /\ Fails(t, code)
              /\ RegisterOnce /\ code = "501" => call[t].svc \notin DOMAIN service_table
              /\ RegisterOnce /\ code = "500" =>
                   /\ call[t].svc \in DOMAIN service_table
                   /\ call[t].fname \notin DOMAIN FTable(call[t].svc)
         \/ /\ pc' = [pc EXCEPT ![t] = "found"]
            /\ call[t].svc \in DOMAIN service_table
            /\ call[t].fname \in DOMAIN FTable(call[t].svc)
            /\ call' = [call EXCEPT ![t].item = FTable(call[t].svc)[call[t].fname].value]
  <1> DEFINE svc == call[t].svc
             fname == call[t].fname
  <1>1. PICK lost \in SUBSET Dangling(service_table) :
          IF svc \notin DOMAIN service_table \ lost THEN Fails(t, "501")
          ELSE IF ~call[t].json THEN Fails(t, "511")
          ELSE \E gone \in SUBSET Dangling(FTable(svc)) :
                 IF fname \notin DOMAIN FTable(svc) \ gone THEN Fails(t, "500")
                 ELSE /\ pc' = [pc EXCEPT ![t] = "found"]
                      /\ call' = [call EXCEPT ![t].item = FTable(svc)[fname].value]
    BY DEF call_function_Lookup, FTable, At
  <1>2. RegisterOnce => /\ Dangling(service_table) = {}
                        /\ \A s \in DOMAIN service_table : Dangling(FTable(s)) = {}
    BY NoneDangling DEF Inv, TypeInv, RegInv
  <1> HIDE DEF svc, fname
  <1>3. CASE svc \notin DOMAIN service_table \ lost
    BY <1>1, <1>2, <1>3 DEF svc, fname
  <1>4. CASE svc \in DOMAIN service_table \ lost /\ ~call[t].json
    BY <1>1, <1>4
  <1>5. CASE svc \in DOMAIN service_table \ lost /\ call[t].json
    <2>1. PICK gone \in SUBSET Dangling(FTable(svc)) :
            IF fname \notin DOMAIN FTable(svc) \ gone THEN Fails(t, "500")
            ELSE /\ pc' = [pc EXCEPT ![t] = "found"]
                 /\ call' = [call EXCEPT ![t].item = FTable(svc)[fname].value]
      BY <1>1, <1>5
    <2>2. CASE fname \notin DOMAIN FTable(svc) \ gone
      BY <1>2, <1>5, <2>1, <2>2 DEF svc, fname
    <2>3. CASE fname \in DOMAIN FTable(svc) \ gone
      BY <1>5, <2>1, <2>3 DEF svc, fname
    <2> QED BY <2>2, <2>3
  <1> QED BY <1>3, <1>4, <1>5

\* The look-up ends in an error that is true of the tables, or in an item.
LEMMA LookupStep ==
  ASSUME Inv, NEW t \in Threads, call_function_Lookup(t)
  PROVE  Inv'
  <1> USE DEF Inv
  <1>0. /\ call[t] \in CallRecords /\ pc[t] = "enter" /\ UNCHANGED <<regVars, logVars, rotVars>>
        /\ phase = "up" /\ call[t].svc \in Services /\ call[t].fname \in FNames
        /\ pc \in [Threads -> {"idle", "enter", "found", "ran", "print", "printing", "done"}]
        /\ call \in [Threads -> CallRecords] /\ slow_log_lock \in Threads \cup {None}
    BY DEF TypeInv, TypeOK, CallsOK, call_function_Lookup
  <1>1. ASSUME NEW code \in {"500", "501", "511"}, Fails(t, code),
               RegisterOnce /\ code = "501" => call[t].svc \notin DOMAIN service_table,
               RegisterOnce /\ code = "500" =>
                   /\ call[t].svc \in DOMAIN service_table
                   /\ call[t].fname \notin DOMAIN FTable(call[t].svc)
        PROVE  Inv'
    <2> DEFINE c == [call[t] EXCEPT !.answer = code]
    <2>1. /\ c \in CallRecords /\ c.answer = code /\ c.svc = call[t].svc
          /\ c.fname = call[t].fname /\ c.start = call[t].start
      BY <1>0 DEF CallRecords, Answers
    <2>2. pc' = [pc EXCEPT ![t] = "done"] /\ call' = [call EXCEPT ![t] = c] BY <1>1 DEF Fails
    <2> HIDE DEF c
    <2>3. LockOK' BY <1>0, <2>1, <2>2 DEF LogInv, LockOK, Stuck, logVars, rotVars
    <2>4. TypeInv' /\ LogInv' BY <1>0, <2>1, <2>2, <2>3, CallTypes DEF logVars
    <2>5. ASSUME RegisterOnce PROVE RegInv'
      <3>1. c.answer = "501" => <<c.svc, None, None>> \notin known
        BY <1>0, <1>1, <2>1, <2>5 DEF RegInv, KnownOK
      <3>2. c.answer = "500" => /\ <<c.svc, None, None>> \in known
                                /\ \A f \in Funcs : <<c.svc, c.fname, f>> \notin known
        BY <1>0, <1>1, <2>1, <2>5 DEF RegInv, KnownOK
      <3> QED BY <1>0, <1>1, <2>1, <2>2, <2>5, <3>1, <3>2, CallTables
    <2> QED BY <2>4, <2>5
  <1>2. ASSUME pc' = [pc EXCEPT ![t] = "found"],
               call[t].svc \in DOMAIN service_table,
               call[t].fname \in DOMAIN FTable(call[t].svc),
               call' = [call EXCEPT ![t].item = FTable(call[t].svc)[call[t].fname].value]
        PROVE  Inv'
    <2> DEFINE i == FTable(call[t].svc)[call[t].fname].value
               c == [call[t] EXCEPT !.item = i]
    <2>0. i \in 1..Len(heap) /\ i \in 1..MaxAllocs
      <3>1. At(call[t].svc) \in 1..Len(heap) BY <1>2, HeapFacts DEF TypeInv, Bounded, At
      <3>2. i \in 1..Len(heap) BY <1>2, <3>1, HeapFacts DEF TypeInv, Bounded, FTable
      <3>3. Len(heap) \in Nat /\ Len(heap) <= MaxAllocs BY HeapFacts DEF TypeInv, HeapOK
      <3> QED BY <3>2, <3>3, ServerAssumption
    <2>2. pc' = [pc EXCEPT ![t] = "found"] /\ call' = [call EXCEPT ![t] = c] BY <1>2
    <2> HIDE DEF i
    <2>1. /\ c \in CallRecords /\ c.answer = call[t].answer /\ c.svc = call[t].svc /\ c.item = i
          /\ c.fname = call[t].fname /\ c.start = call[t].start /\ c.func = call[t].func
      BY <1>0, <2>0 DEF CallRecords
    <2> HIDE DEF c
    <2>3. LockOK' BY <1>0, <2>1, <2>2 DEF LogInv, LockOK, Stuck, logVars, rotVars
    <2>4. TypeInv' /\ LogInv' BY <1>0, <2>0, <2>1, <2>2, <2>3, CallTypes DEF logVars
    <2>5. ASSUME RegisterOnce PROVE RegInv'
      <3>1. call'[t] = c /\ pc'[t] = "found" BY <1>0, <2>2
      <3>2. \A x \in Threads \ {t} : pc'[x] = pc[x] /\ call'[x] = call[x] BY <1>0, <2>2
      <3>3. /\ c.answer = "value" => <<c.svc, c.fname, c.func>> \in known
            /\ c.answer = "501"   => <<c.svc, None, None>> \notin known
            /\ c.answer = "500"   => /\ <<c.svc, None, None>> \in known
                                     /\ \A f \in Funcs : <<c.svc, c.fname, f>> \notin known
        BY <2>1, <2>5 DEF RegInv, DispatchesKnown
      <3> QED BY <1>0, <1>2, <2>1, <2>5, <3>1, <3>2, <3>3, CallTables DEF i
    <2> QED BY <2>4, <2>5
  <1> QED BY <1>1, <1>2, LookupOutcomes

\* The function runs, and it is the one that is known by the name.
LEMMA MarshalStep ==
  ASSUME Inv, NEW t \in Threads, call_function_Marshal(t)
  PROVE  Inv'
  <1> USE DEF Inv
  <1>0. /\ call[t] \in CallRecords /\ pc[t] = "found" /\ UNCHANGED <<regVars, logVars, rotVars>>
        /\ phase = "up" /\ call[t].svc \in Services /\ call[t].fname \in FNames
        /\ pc \in [Threads -> {"idle", "enter", "found", "ran", "print", "printing", "done"}]
        /\ call \in [Threads -> CallRecords] /\ slow_log_lock \in Threads \cup {None}
        /\ call[t].item \in 1..Len(heap)
    BY DEF TypeInv, TypeOK, CallsOK, call_function_Marshal
  <1> DEFINE f == heap[call[t].item].func
             c == [call[t] EXCEPT !.func = f, !.answer = "value"]
  <1>1. f \in Funcs \cup {None} BY <1>0, HeapFacts DEF TypeInv
  <1>2. pc' = [pc EXCEPT ![t] = "ran"] /\ call' = [call EXCEPT ![t] = c]
    BY DEF call_function_Marshal
  <1> HIDE DEF f
  <1>3. /\ c \in CallRecords /\ c.answer = "value" /\ c.svc = call[t].svc /\ c.func = f
        /\ c.fname = call[t].fname /\ c.start = call[t].start /\ c.item = call[t].item
    BY <1>0, <1>1 DEF CallRecords, Answers
  <1> HIDE DEF c
  <1>4. LockOK' BY <1>0, <1>2, <1>3 DEF LogInv, LockOK, Stuck, logVars, rotVars
  <1>5. TypeInv' /\ LogInv' BY <1>0, <1>2, <1>3, <1>4, CallTypes DEF logVars
  <1>6. ASSUME RegisterOnce PROVE RegInv'
    <2>1. /\ c.svc \in DOMAIN service_table /\ c.fname \in DOMAIN FTable(c.svc)
          /\ c.item = FTable(c.svc)[c.fname].value
      BY <1>0, <1>3, <1>6 DEF RegInv, FoundOK
    <2>2. f \in Funcs BY <1>3, <1>6, <2>1 DEF RegInv, FuncsOK, f
    <2>3. <<c.svc, c.fname, c.func>> \in known
      BY <1>0, <1>3, <1>6, <2>1, <2>2 DEF RegInv, KnownOK, f
    <2>4. call'[t] = c BY <1>0, <1>2
    <2>5. \A x \in Threads \ {t} : pc'[x] = pc[x] /\ call'[x] = call[x] BY <1>0, <1>2
    <2> QED BY <1>0, <1>3, <1>6, <2>1, <2>3, <2>4, <2>5, CallTables
  <1> QED BY <1>5, <1>6

\* A call that is timed, printed, done: the lock is the thread's while it prints.
LEMMA LogStep ==
  ASSUME Inv, NEW t \in Threads,
         call_function_Timed(t) \/ print_slow_log_Lock(t) \/ print_slow_log_Unlock(t)
  PROVE  Inv'
  <1> USE DEF Inv
  <1>0. /\ call[t] \in CallRecords /\ UNCHANGED <<regVars, rotVars>>
        /\ UNCHANGED <<log_to_stdout, had_log, slow_log_fp, files, closed>>
        /\ pc[t] \in {"ran", "print", "printing"}
        /\ phase = "up" /\ call[t].svc \in Services /\ call[t].fname \in FNames
        /\ pc \in [Threads -> {"idle", "enter", "found", "ran", "print", "printing", "done"}]
        /\ call \in [Threads -> CallRecords] /\ slow_log_lock \in Threads \cup {None}
        /\ slow_log_fp \in Files /\ LockOK /\ None \notin Threads
    BY ServerAssumption
    DEF TypeInv, TypeOK, CallsOK, LogInv, call_function_Timed, print_slow_log_Lock,
        print_slow_log_Unlock, logVars
  <1>1. ASSUME NEW place \in {"print", "printing", "done"}, NEW c \in CallRecords,
               pc' = [pc EXCEPT ![t] = place], call' = [call EXCEPT ![t] = c],
               \A x \in {"svc", "fname", "answer", "func"} : c[x] = call[t][x],
               slow_log_lock' \in Threads \cup {None}, LockOK'
        PROVE  Inv'
    <2>0. c.svc = call[t].svc /\ c.fname = call[t].fname /\ c.answer = call[t].answer
          /\ c.func = call[t].func
      BY <1>1
    <2>1. TypeInv' /\ LogInv' BY <1>0, <1>1, <2>0, CallTypes
    <2>2. ASSUME RegisterOnce PROVE RegInv'
      <3>1. call'[t] = c /\ pc'[t] = place BY <1>0, <1>1
      <3>2. \A x \in Threads \ {t} : pc'[x] = pc[x] /\ call'[x] = call[x] BY <1>0, <1>1
      <3>3. /\ c.answer = "value" => <<c.svc, c.fname, c.func>> \in known
            /\ c.answer = "501"   => <<c.svc, None, None>> \notin known
            /\ c.answer = "500"   => /\ <<c.svc, None, None>> \in known
                                     /\ \A f \in Funcs : <<c.svc, c.fname, f>> \notin known
        BY <2>0, <2>2 DEF RegInv, DispatchesKnown
      <3> QED BY <1>0, <1>1, <2>2, <3>1, <3>2, <3>3, CallTables
    <2> QED BY <2>1, <2>2
  <1>2. CASE call_function_Timed(t)
    <2>1. PICK place \in {"print", "done"} :
            /\ pc' = [pc EXCEPT ![t] = place]
            /\ place = "print" => slow_log_fp # None
      BY <1>2 DEF call_function_Timed
    <2>2. call' = [call EXCEPT ![t] = call[t]] /\ slow_log_lock' = slow_log_lock
          /\ pc[t] = "ran" /\ call' = call
      BY <1>0, <1>2 DEF call_function_Timed, logVars
    <2>3. LockOK' BY <1>0, <2>1, <2>2 DEF LockOK, Stuck, rotVars
    <2> QED BY <1>0, <1>1, <2>1, <2>2, <2>3
  <1>3. CASE print_slow_log_Lock(t)
    <2> DEFINE c == [call[t] EXCEPT !.file = slow_log_fp]
    <2>1. /\ c \in CallRecords /\ c.file = slow_log_fp /\ c.start = call[t].start
          /\ \A x \in {"svc", "fname", "answer", "func"} : c[x] = call[t][x]
      BY <1>0 DEF CallRecords
    <2>2. /\ pc' = [pc EXCEPT ![t] = "printing"] /\ call' = [call EXCEPT ![t] = c]
          /\ slow_log_lock' = t /\ slow_log_lock = None /\ pc[t] = "print"
      BY <1>3 DEF print_slow_log_Lock
    <2> HIDE DEF c
    <2>3. LockOK' BY <1>0, <2>1, <2>2 DEF LockOK, Stuck, rotVars
    <2> QED BY <1>0, <1>1, <2>1, <2>2, <2>3
  <1>4. CASE print_slow_log_Unlock(t)
    <2>2. /\ pc' = [pc EXCEPT ![t] = "done"] /\ call' = [call EXCEPT ![t] = call[t]]
          /\ slow_log_lock' = None /\ pc[t] = "printing" /\ call' = call
      BY <1>0, <1>4 DEF print_slow_log_Unlock
    <2>3. LockOK' BY <1>0, <2>2 DEF LockOK, Stuck, rotVars
    <2> QED BY <1>0, <1>1, <2>2, <2>3
  <1> QED BY <1>2, <1>3, <1>4

\* A call returns.
LEMMA ReturnStep ==
  ASSUME Inv, NEW t \in Threads, call_function_Return(t)
  PROVE  Inv'
  <1> USE DEF Inv
  <1>0. /\ UNCHANGED <<regVars, logVars, rotVars>> /\ pc[t] = "done"
        /\ pc \in [Threads -> {"idle", "enter", "found", "ran", "print", "printing", "done"}]
        /\ call \in [Threads -> CallRecords] /\ slow_log_lock \in Threads \cup {None}
        /\ pc' = [pc EXCEPT ![t] = "idle"] /\ call' = [call EXCEPT ![t] = NoCall]
    BY DEF TypeInv, TypeOK, CallsOK, call_function_Return
  <1>1. NoCall \in CallRecords /\ NoCall.answer = "none"
    BY DEF NoCall, CallRecords, Answers, Files
  <1>2. LockOK' BY <1>0 DEF LogInv, LockOK, Stuck, logVars, rotVars
  <1>3. TypeInv' /\ LogInv' BY <1>0, <1>1, <1>2, CallTypes DEF logVars
  <1>4. call'[t] = NoCall /\ pc'[t] = "idle" BY <1>0
  <1>5. \A x \in Threads \ {t} : pc'[x] = pc[x] /\ call'[x] = call[x] BY <1>0
  <1>6. RegInv => RegInv' BY <1>0, <1>1, <1>4, <1>5, CallTables
  <1> QED BY <1>3, <1>6

-----------------------------------------------------------------------------
(* The application changes the tables while no call runs.                  *)

\* Nothing is under way, so that what calls have found is not disturbed.
LEMMA QuietFacts ==
  ASSUME Inv, Quiet, UNCHANGED <<logVars, rotVars, pc, call>>, phase' = "new" => phase = "new",
         HeapOK', TypeOK'
  PROVE  TypeInv' /\ LogInv' /\ FoundOK' /\ DispatchesKnown'
  <1>1. \A t \in Threads : pc[t] = "idle" /\ call[t] = NoCall /\ call[t].answer = "none"
    BY DEF Quiet, Inv, TypeInv, CallsOK, NoCall
  <1>2. CallsOK' BY <1>1 DEF Inv, TypeInv, CallsOK
  <1>3. LogInv' BY LogUnchanged DEF Inv
  <1>4. FoundOK' BY <1>1 DEF FoundOK
  <1>5. DispatchesKnown' BY <1>1 DEF DispatchesKnown
  <1> QED BY <1>2, <1>3, <1>4, <1>5 DEF TypeInv

\* A marshal is registered.
LEMMA RegisterMarshalStep ==
  ASSUME Inv, NEW sig \in Sigs, searpc_server_register_marshal(sig)
  PROVE  Inv'
  <1> USE DEF Inv
  <1>1. TypeOK'
    BY DEF TypeInv, TypeOK, searpc_server_register_marshal, logVars, rotVars
  <1>2. HeapOK' BY DEF TypeInv, HeapOK, Bounded, searpc_server_register_marshal
  <1>3. TypeInv' /\ LogInv'
    BY <1>1, <1>2, QuietFacts DEF searpc_server_register_marshal, Quiet
  <1>4. RegInv => RegInv' BY RegUnchanged DEF searpc_server_register_marshal
  <1> QED BY <1>3, <1>4

\* A service is created, unless there is one of the name.
LEMMA CreateStep ==
  ASSUME Inv, NEW svc \in Services, searpc_create_service(svc)
  PROVE  Inv'
  <1> USE DEF Inv
  <1>q. /\ Quiet /\ UNCHANGED <<logVars, rotVars, pc, call, phase, marshal_table>>
        /\ known' = known \cup {<<svc, None, None>>}
    BY DEF searpc_create_service
  <1>h. /\ HeapOK /\ service_table \in Tables(Services) /\ None \notin FNames /\ TypeOK
        /\ MaxAllocs \in Nat /\ DOMAIN service_table \subseteq Services
    BY ServerAssumption, TableFacts DEF TypeInv, TypeOK
  <1>1. CASE svc \in DOMAIN service_table
    <2>0. UNCHANGED <<heap, service_table>> BY <1>1 DEF searpc_create_service
    <2>1. TypeOK' BY <1>h, <1>q, <2>0 DEF TypeOK, logVars, rotVars
    <2>2. HeapOK' BY <1>h, <2>0 DEF HeapOK, Bounded
    <2>3. ASSUME RegisterOnce PROVE TablesOK' /\ KnownOK' /\ FuncsOK'
      <3>0. TablesOK BY <2>3 DEF RegInv
      <3>1. TablesOK' BY <2>0, <3>0 DEF TablesOK, At, FTable
      <3>2. FuncsOK' BY <2>0, <2>3 DEF RegInv, FuncsOK, At, FTable
      <3>3. KnownOK' BY <1>h, <1>q, <1>1, <2>0, <2>3 DEF RegInv, KnownOK, At, FTable
      <3> QED BY <3>1, <3>2, <3>3
    <2> QED BY <1>q, <2>1, <2>2, <2>3, QuietFacts DEF RegInv, Quiet
  <1>2. CASE svc \notin DOMAIN service_table
    <2> DEFINE new == Len(heap) + 1
    <2>0. /\ heap' = Append(heap, Service) /\ service_table' = Insert(service_table, svc, new)
          /\ Len(heap) < MaxAllocs
      BY <1>2 DEF searpc_create_service
    <2>a. /\ heap' \in Seq(Allocations) /\ Len(heap') = new /\ heap'[new] = Service
          /\ \A i \in 1..Len(heap) : heap'[i] = heap[i]
      BY <1>h, <2>0, NewFacts, AppendFacts, HeapFacts
    <2>n. /\ Len(heap) \in Nat /\ new \in 1..MaxAllocs /\ new \in 1..new /\ new \notin 1..Len(heap)
          /\ \A i \in 1..Len(heap) : i \in 1..new
          /\ \A i \in 1..new : i = new \/ i \in 1..Len(heap)
      BY <1>h, <2>0, HeapFacts
    <2> HIDE DEF new
    <2>b. /\ service_table' \in Tables(Services)
          /\ DOMAIN service_table' = DOMAIN service_table \cup {svc}
          /\ \A s \in DOMAIN service_table : service_table'[s] = service_table[s]
          /\ service_table'[svc].value = new /\ service_table'[svc].key = new
      <3> DEFINE T == Insert(service_table, svc, new)
      <3>1. /\ T \in Tables(Services) /\ DOMAIN T = DOMAIN service_table \cup {svc}
            /\ \A s \in DOMAIN service_table : s # svc => T[s] = service_table[s]
            /\ T[svc].value = new
            /\ T[svc].key = new
        <4>1. service_table \in Tables(Services) /\ svc \in Services /\ new \in 1..MaxAllocs
          BY <1>h, <2>n
        <4>2. T \in Tables(Services) BY <4>1, InsertType
        <4> QED BY <1>2, <4>2 DEF Insert
      <3>2. service_table' = T BY <2>0
      <3> HIDE DEF T
      <3> QED BY <1>2, <3>1, <3>2
    <2>s. DOMAIN Service.table = {} /\ Service.live = TRUE /\ Service.func = None
          /\ Service.table \in Tables(FNames)
      BY NoTableFacts DEF Service
    <2>t. Bounded(service_table, Len(heap)) /\ \A i \in 1..Len(heap) : Bounded(heap[i].table, Len(heap))
      BY <1>h DEF HeapOK
    <2>2. HeapOK'
      <3>1. Bounded(service_table, Len(heap))' BY <2>a, <2>b, <2>n, <2>t DEF Bounded
      <3>2. \A i \in 1..new : Bounded(heap'[i].table, new)
        <4>1. Bounded(heap'[new].table, new) BY <2>a, <2>s DEF Bounded
        <4>2. \A i \in 1..Len(heap) : Bounded(heap'[i].table, new) BY <2>a, <2>n, <2>t DEF Bounded
        <4>3. ASSUME NEW i \in 1..new PROVE i = new \/ i \in 1..Len(heap) BY <2>n
        <4> QED BY <4>1, <4>2, <4>3
      <3>3. new <= MaxAllocs BY <1>h, <2>0, <2>n DEF new
      <3> QED BY <2>a, <3>1, <3>2, <3>3 DEF HeapOK
    <2>1. TypeOK'
      <3>1. DOMAIN heap' = 1..new BY <2>a, LenProperties
      <3>2. \A i \in 1..new :
              /\ heap'[i].live \in BOOLEAN /\ heap'[i].table \in Tables(FNames)
              /\ heap'[i].func # None => heap'[i].marshal \in Sigs
        <4>1. \A i \in 1..Len(heap) :
                /\ heap[i].live \in BOOLEAN /\ heap[i].table \in Tables(FNames)
                /\ heap[i].func # None => heap[i].marshal \in Sigs
          BY <1>h, HeapFacts DEF TypeOK
        <4>2. \A i \in 1..Len(heap) :
                /\ heap'[i].live \in BOOLEAN /\ heap'[i].table \in Tables(FNames)
                /\ heap'[i].func # None => heap'[i].marshal \in Sigs
          BY <2>a, <4>1
        <4>3. /\ heap'[new].live \in BOOLEAN /\ heap'[new].table \in Tables(FNames)
              /\ heap'[new].func = None
          BY <2>a, <2>s
        <4>4. \A i \in 1..new : i = new \/ i \in 1..Len(heap) BY <2>n
        <4> QED BY <4>2, <4>3, <4>4
      <3> QED BY <1>h, <1>q, <2>b, <3>1, <3>2 DEF TypeOK, logVars, rotVars
    <2>3. ASSUME RegisterOnce PROVE TablesOK' /\ KnownOK' /\ FuncsOK'
      <3>0. TablesOK /\ KnownOK /\ FuncsOK BY <2>3 DEF RegInv
      <3>1. /\ \A s \in DOMAIN service_table : At(s)' = At(s) /\ At(s) \in 1..Len(heap)
                 /\ FTable(s)' = FTable(s)
            /\ At(svc)' = new /\ DOMAIN FTable(svc)' = {}
        BY <2>a, <2>b, <2>s, <2>t DEF At, FTable, Bounded
      <3>2. \A s \in DOMAIN service_table : \A n \in DOMAIN FTable(s) :
              FTable(s)[n].value \in 1..Len(heap)
        BY <2>t, <3>1 DEF FTable, Bounded
      <3>3. TablesOK'
        <4>1. \A x, s \in DOMAIN service_table' : At(x)' = At(s)' => x = s
          BY <2>b, <2>n, <3>0, <3>1 DEF TablesOK
        <4>2. ASSUME NEW x \in DOMAIN service_table'
              PROVE  /\ service_table'[x].key = At(x)' /\ heap'[At(x)'].live
                     /\ \A n \in DOMAIN FTable(x)' :
                          /\ FTable(x)'[n].key = FTable(x)'[n].value
                          /\ heap'[FTable(x)'[n].value].live
                          /\ \A s \in DOMAIN service_table' :
                               /\ FTable(x)'[n].value # At(s)'
                               /\ \A m \in DOMAIN FTable(s)' :
                                    FTable(x)'[n].value = FTable(s)'[m].value => x = s /\ n = m
          <5>1. CASE x = svc BY <2>a, <2>b, <2>s, <3>1, <5>1
          <5>2. CASE x # svc
            <6>1. x \in DOMAIN service_table BY <2>b, <5>2
            <6>2. service_table'[x].key = At(x)' /\ heap'[At(x)'].live
              BY <2>a, <2>b, <3>0, <3>1, <6>1 DEF TablesOK
            <6>3. ASSUME NEW n \in DOMAIN FTable(x)'
                  PROVE  /\ FTable(x)'[n].key = FTable(x)'[n].value
                         /\ heap'[FTable(x)'[n].value].live
                         /\ \A s \in DOMAIN service_table' :
                              /\ FTable(x)'[n].value # At(s)'
                              /\ \A m \in DOMAIN FTable(s)' :
                                   FTable(x)'[n].value = FTable(s)'[m].value => x = s /\ n = m
              <7>1. FTable(x)' = FTable(x) BY <3>1, <6>1
              <7>2. FTable(x)[n].key = FTable(x)[n].value /\ heap[FTable(x)[n].value].live
                BY <3>0, <6>1, <6>3, <7>1 DEF TablesOK
              <7>3. FTable(x)[n].value \in 1..Len(heap) BY <3>2, <6>1, <6>3, <7>1
              <7>4. ASSUME NEW s \in DOMAIN service_table'
                    PROVE  /\ FTable(x)[n].value # At(s)'
                           /\ \A m \in DOMAIN FTable(s)' :
                                FTable(x)[n].value = FTable(s)'[m].value => x = s /\ n = m
                <8>1. CASE s = svc BY <2>n, <3>1, <7>3, <8>1
                <8>2. CASE s # svc
                  <9>1. s \in DOMAIN service_table BY <2>b, <8>2
                  <9> QED BY <3>0, <3>1, <6>1, <6>3, <7>1, <9>1 DEF TablesOK
                <8> QED BY <8>1, <8>2
              <7> QED BY <2>a, <7>1, <7>2, <7>3, <7>4
            <6> QED BY <6>2, <6>3
          <5> QED BY <5>1, <5>2
        <4> QED BY <4>1, <4>2 DEF TablesOK
      <3>4. FuncsOK' BY <2>a, <2>b, <3>0, <3>1, <3>2 DEF FuncsOK
      <3>5. KnownOK'
        <4>1. ASSUME NEW x \in Services
              PROVE  <<x, None, None>> \in known' <=> x \in DOMAIN service_table'
          BY <1>q, <2>b, <3>0 DEF KnownOK
        <4>2. ASSUME NEW x \in Services, NEW n \in FNames, NEW f \in Funcs
              PROVE  <<x, n, f>> \in known' <=>
                       /\ x \in DOMAIN service_table' /\ n \in DOMAIN FTable(x)'
                       /\ heap'[FTable(x)'[n].value].func = f
          <5>1. <<x, n, f>> \in known' <=> <<x, n, f>> \in known BY <1>h, <1>q
          <5>2. CASE x = svc BY <1>2, <3>0, <3>1, <5>1, <5>2 DEF KnownOK
          <5>3. CASE x # svc BY <2>a, <2>b, <3>0, <3>1, <3>2, <5>1, <5>3 DEF KnownOK
          <5> QED BY <5>2, <5>3
        <4> QED BY <4>1, <4>2 DEF KnownOK
      <3> QED BY <3>3, <3>4, <3>5
    <2> QED BY <1>q, <2>1, <2>2, <2>3, QuietFacts DEF RegInv, Quiet
  <1> QED BY <1>1, <1>2

\* A heap of which some allocations are freed keeps its types.
LEMMA FreedTypes ==
  ASSUME HeapOK, TypeOK, NEW is, heap' = Free(heap, is)
  PROVE  /\ heap' \in Seq(Allocations) /\ Len(heap') = Len(heap) /\ DOMAIN heap' = 1..Len(heap)
         /\ \A i \in 1..Len(heap) :
              /\ heap'[i].func = heap[i].func /\ heap'[i].table = heap[i].table
              /\ heap'[i].live = (heap[i].live /\ i \notin is)
              /\ heap'[i].live \in BOOLEAN /\ heap'[i].table \in Tables(FNames)
              /\ heap'[i].func # None => heap'[i].marshal \in Sigs
  <1>0. heap \in Seq(Allocations) /\ DOMAIN heap = 1..Len(heap) BY HeapFacts
  <1>1. /\ heap' \in Seq(Allocations) /\ Len(heap') = Len(heap)
        /\ \A i \in 1..Len(heap) :
             /\ heap'[i].func = heap[i].func /\ heap'[i].marshal = heap[i].marshal
             /\ heap'[i].table = heap[i].table
             /\ heap'[i].live = (heap[i].live /\ i \notin is)
    BY <1>0, FreeFacts
  <1>2. DOMAIN heap' = 1..Len(heap) BY <1>1, LenProperties
  <1>3. \A i \in 1..Len(heap) :
          /\ heap[i].table \in Tables(FNames)
          /\ heap[i].func # None => heap[i].marshal \in Sigs
    BY <1>0 DEF TypeOK
  <1> QED BY <1>1, <1>2, <1>3

\* A service is removed with its functions: what the others lead to is not
\* freed, because nothing is shared.
LEMMA RemoveStep ==
  ASSUME Inv, NEW svc \in Services, searpc_remove_service(svc)
  PROVE  Inv'
  <1> USE DEF Inv
  <1> DEFINE is == {At(svc)} \cup Values(FTable(svc))
  <1>q. /\ Quiet /\ UNCHANGED <<logVars, rotVars, pc, call, phase, marshal_table>>
        /\ known' = {k \in known : k[1] # svc} /\ svc \in DOMAIN service_table
        /\ service_table' = [s \in DOMAIN service_table \ {svc} |-> service_table[s]]
    BY DEF searpc_remove_service
  <1>h. /\ HeapOK /\ service_table \in Tables(Services) /\ TypeOK
        /\ DOMAIN service_table \subseteq Services /\ service_table \in [DOMAIN service_table -> Entries]
    BY TableFacts DEF TypeInv, TypeOK
  <1>0. heap' = Free(heap, is)
    BY DEF searpc_remove_service, service_free, At, FTable
  <1>a. /\ heap' \in Seq(Allocations) /\ Len(heap') = Len(heap) /\ DOMAIN heap' = 1..Len(heap)
        /\ \A i \in 1..Len(heap) :
             /\ heap'[i].func = heap[i].func /\ heap'[i].table = heap[i].table
             /\ heap'[i].live = (heap[i].live /\ i \notin is)
             /\ heap'[i].live \in BOOLEAN /\ heap'[i].table \in Tables(FNames)
             /\ heap'[i].func # None => heap'[i].marshal \in Sigs
    BY <1>h, <1>0, FreedTypes
  <1> HIDE DEF is
  <1>b. /\ DOMAIN service_table' = DOMAIN service_table \ {svc}
        /\ \A s \in DOMAIN service_table' : service_table'[s] = service_table[s]
        /\ service_table' \in Tables(Services)
    <2>1. service_table' \in [DOMAIN service_table' -> Entries] BY <1>h, <1>q
    <2> QED BY <1>h, <1>q, <2>1, TableFacts
  <1>t. Bounded(service_table, Len(heap)) /\ \A i \in 1..Len(heap) : Bounded(heap[i].table, Len(heap))
    BY <1>h DEF HeapOK
  <1>1. TypeOK'
    <2>1. known' \subseteq Services \X (FNames \cup {None}) \X (Funcs \cup {None})
      BY <1>h, <1>q DEF TypeOK
    <2> QED BY <1>h, <1>q, <1>a, <1>b, <2>1 DEF TypeOK, logVars, rotVars
  <1>2. HeapOK'
    BY <1>h, <1>a, <1>b, <1>t DEF HeapOK, Bounded
  <1>3. ASSUME RegisterOnce PROVE TablesOK' /\ KnownOK' /\ FuncsOK'
    <2>0. TablesOK /\ KnownOK /\ FuncsOK BY <1>3 DEF RegInv
    <2>1. ASSUME NEW s \in DOMAIN service_table'
          PROVE  /\ s \in DOMAIN service_table /\ s # svc
                 /\ At(s)' = At(s) /\ At(s) \in 1..Len(heap) /\ FTable(s)' = FTable(s)
                 /\ service_table'[s].key = service_table[s].key
                 /\ \A n \in DOMAIN FTable(s) : FTable(s)[n].value \in 1..Len(heap)
      <3>1. s \in DOMAIN service_table /\ s # svc /\ service_table'[s] = service_table[s] BY <1>b
      <3>2. At(s)' = At(s) /\ At(s) \in 1..Len(heap) BY <1>t, <3>1 DEF At, Bounded
      <3>3. FTable(s)' = FTable(s) BY <1>a, <3>2 DEF FTable
      <3>4. \A n \in DOMAIN FTable(s) : FTable(s)[n].value \in 1..Len(heap)
        BY <1>t, <3>2 DEF FTable, Bounded
      <3> QED BY <3>1, <3>2, <3>3, <3>4
    <2>2. ASSUME NEW s \in DOMAIN service_table' PROVE heap'[At(s)].live
      <3>1. At(s) \notin is BY <1>q, <2>0, <2>1 DEF TablesOK, is, Values
      <3>2. heap[At(s)].live BY <2>0, <2>1 DEF TablesOK
      <3> QED BY <1>a, <2>1, <3>1, <3>2
    <2>3. ASSUME NEW s \in DOMAIN service_table', NEW n \in DOMAIN FTable(s)
          PROVE  heap'[FTable(s)[n].value].live
      <3> DEFINE i == FTable(s)[n].value
      <3>1. i # At(svc) BY <1>q, <2>0, <2>1 DEF TablesOK
      <3>2. i \notin Values(FTable(svc))
        <4>1. \A m \in DOMAIN FTable(svc) : FTable(svc)[m].value # i
          BY <1>q, <2>0, <2>1 DEF TablesOK
        <4> QED BY <4>1 DEF Values
      <3>3. heap[i].live BY <2>0, <2>1 DEF TablesOK
      <3> QED BY <1>a, <2>1, <3>1, <3>2, <3>3 DEF is
    <2>4. TablesOK'
      <3>1. \A x, s \in DOMAIN service_table' : At(x)' = At(s)' => x = s
        BY <2>0, <2>1 DEF TablesOK
      <3>2. ASSUME NEW x \in DOMAIN service_table'
            PROVE  /\ service_table'[x].key = At(x)' /\ heap'[At(x)'].live
                   /\ \A n \in DOMAIN FTable(x)' :
                        /\ FTable(x)'[n].key = FTable(x)'[n].value
                        /\ heap'[FTable(x)'[n].value].live
                        /\ \A s \in DOMAIN service_table' :
                             /\ FTable(x)'[n].value # At(s)'
                             /\ \A m \in DOMAIN FTable(s)' :
                                  FTable(x)'[n].value = FTable(s)'[m].value => x = s /\ n = m
        <4>1. service_table'[x].key = At(x)' /\ heap'[At(x)'].live
          BY <2>0, <2>1, <2>2 DEF TablesOK
        <4>2. ASSUME NEW n \in DOMAIN FTable(x)'
              PROVE  /\ FTable(x)'[n].key = FTable(x)'[n].value
                     /\ heap'[FTable(x)'[n].value].live
          BY <2>0, <2>1, <2>3 DEF TablesOK
        <4>3. ASSUME NEW n \in DOMAIN FTable(x)', NEW s \in DOMAIN service_table'
              PROVE  /\ FTable(x)'[n].value # At(s)'
                     /\ \A m \in DOMAIN FTable(s)' :
                          FTable(x)'[n].value = FTable(s)'[m].value => x = s /\ n = m
          BY <2>0, <2>1 DEF TablesOK
        <4> QED BY <4>1, <4>2, <4>3
      <3> QED BY <3>1, <3>2 DEF TablesOK
    <2>5. FuncsOK'
      <3>1. ASSUME NEW s \in DOMAIN service_table', NEW n \in DOMAIN FTable(s)'
            PROVE  heap'[FTable(s)'[n].value].func \in Funcs
        BY <1>a, <2>0, <2>1 DEF FuncsOK
      <3> QED BY <3>1 DEF FuncsOK
    <2>6. KnownOK'
      <3>1. ASSUME NEW x \in Services
            PROVE  <<x, None, None>> \in known' <=> x \in DOMAIN service_table'
        BY <1>q, <1>b, <2>0 DEF KnownOK
      <3>2. ASSUME NEW x \in Services, NEW n \in FNames, NEW f \in Funcs
            PROVE  <<x, n, f>> \in known' <=>
                     /\ x \in DOMAIN service_table' /\ n \in DOMAIN FTable(x)'
                     /\ heap'[FTable(x)'[n].value].func = f
        <4>1. <<x, n, f>> \in known' <=> x # svc /\ <<x, n, f>> \in known BY <1>q
        <4>2. CASE x \in DOMAIN service_table'
          BY <1>a, <2>0, <2>1, <4>1, <4>2 DEF KnownOK
        <4>3. CASE x \notin DOMAIN service_table'
          BY <1>b, <2>0, <4>1, <4>3 DEF KnownOK
        <4> QED BY <4>2, <4>3
      <3> QED BY <3>1, <3>2 DEF KnownOK
    <2> QED BY <2>4, <2>5, <2>6
  <1> QED BY <1>q, <1>1, <1>2, <1>3, QuietFacts DEF RegInv, Quiet

\* Everything is freed, and no table leads to it any more.
LEMMA FinalStep ==
  ASSUME Inv, searpc_server_final
  PROVE  Inv'
  <1> USE DEF Inv
  <1>q. /\ Quiet /\ UNCHANGED <<logVars, rotVars, pc, call>> /\ phase' = "final"
        /\ service_table' = NoTable /\ marshal_table' = {} /\ known' = {}
    BY DEF searpc_server_final
  <1>h. HeapOK /\ TypeOK BY DEF TypeInv
  <1>0. PICK is : heap' = Free(heap, is) BY DEF searpc_server_final, service_free
  <1>a. /\ heap' \in Seq(Allocations) /\ Len(heap') = Len(heap) /\ DOMAIN heap' = 1..Len(heap)
        /\ \A i \in 1..Len(heap) :
             /\ heap'[i].table = heap[i].table
             /\ heap'[i].live \in BOOLEAN /\ heap'[i].table \in Tables(FNames)
             /\ heap'[i].func # None => heap'[i].marshal \in Sigs
    BY <1>h, <1>0, FreedTypes
  <1>1. TypeOK' BY <1>h, <1>q, <1>a, NoTableFacts DEF TypeOK, logVars, rotVars
  <1>2. HeapOK' BY <1>h, <1>q, <1>a, NoTableFacts DEF HeapOK, Bounded
  <1>3. TablesOK' /\ FuncsOK' BY <1>q, NoTableFacts DEF TablesOK, FuncsOK
  <1>4. KnownOK' BY <1>q, NoTableFacts DEF KnownOK
  <1> QED BY <1>q, <1>1, <1>2, <1>3, <1>4, QuietFacts DEF RegInv

\* A function is registered.  A name that is new to its service gets an item of
\* its own, and what was known of it before is forgotten.
LEMMA RegisterFunctionStep ==
  ASSUME Inv, NEW svc \in Services, NEW f \in Funcs, NEW fname \in FNames, NEW sig \in Sigs,
         searpc_server_register_function(svc, f, fname, sig)
  PROVE  Inv'
  <1> USE DEF Inv
  <1> DEFINE new == Len(heap) + 1
             svcs == DOMAIN service_table
  <1>q. /\ Quiet /\ UNCHANGED <<logVars, rotVars, pc, call, phase, service_table, marshal_table>>
        /\ known' = {k \in known : k[1] # svc \/ k[2] # fname} \cup {<<svc, fname, f>>}
        /\ svc \in svcs /\ Len(heap) < MaxAllocs
        /\ heap' = Registered(svc, f, fname, sig)
        /\ RegisterOnce => fname \notin DOMAIN FTable(svc)
    BY DEF searpc_server_register_function, FTable, At
  <1>h. HeapOK /\ TypeOK /\ MaxAllocs \in Nat /\ None \notin FNames /\ svcs \subseteq Services
    BY ServerAssumption, TableFacts DEF TypeInv, TypeOK
  <1>a. /\ heap' \in Seq(Allocations) /\ Len(heap') = new
        /\ heap'[new] = Item(f, sig)
        /\ \A i \in 1..Len(heap) :
             /\ heap'[i].func = heap[i].func /\ heap'[i].marshal = heap[i].marshal
             /\ heap'[i].table = IF i = At(svc) THEN Insert(heap[i].table, fname, new)
                                                ELSE heap[i].table
             /\ fname \notin DOMAIN FTable(svc) => heap'[i].live = heap[i].live
    BY <1>q, RegisteredFacts
  <1>n. /\ Len(heap) \in Nat /\ new \in 1..MaxAllocs /\ new \in 1..new /\ new \notin 1..Len(heap)
        /\ \A i \in 1..Len(heap) : i \in 1..new
        /\ \A i \in 1..new : i = new \/ i \in 1..Len(heap)
        /\ new <= MaxAllocs
    BY <1>h, <1>q, HeapFacts
  <1> HIDE DEF new
  <1>s. /\ DOMAIN Item(f, sig).table = {} /\ Item(f, sig).live = TRUE /\ Item(f, sig).func = f
        /\ Item(f, sig).marshal = sig /\ Item(f, sig).table \in Tables(FNames)
    BY NoTableFacts DEF Item
  <1>t. /\ Bounded(service_table, Len(heap))
        /\ \A i \in 1..Len(heap) : Bounded(heap[i].table, Len(heap)) /\ heap[i].table \in Tables(FNames)
        /\ DOMAIN heap' = 1..new
    BY <1>h, <1>a, HeapFacts, LenProperties
  <1>u. At(svc) \in 1..Len(heap) BY <1>q, <1>t DEF At, Bounded
  <1> DEFINE T == Insert(FTable(svc), fname, new)
  <1>i. /\ T \in Tables(FNames) /\ DOMAIN T = DOMAIN FTable(svc) \cup {fname}
        /\ \A n \in DOMAIN FTable(svc) : n # fname => T[n] = FTable(svc)[n]
        /\ T[fname].value = new
        /\ fname \notin DOMAIN FTable(svc) => T[fname].key = new
    <2>1. FTable(svc) \in Tables(FNames) BY <1>t, <1>u DEF FTable
    <2>2. new \in 1..MaxAllocs BY <1>n
    <2>3. T \in Tables(FNames) BY <2>1, <2>2, InsertType
    <2> QED BY <2>3 DEF Insert
  <1>j. heap'[At(svc)].table = T BY <1>a, <1>u DEF FTable
  <1>k. fname \in DOMAIN FTable(svc) => T[fname].key = FTable(svc)[fname].key
    BY DEF Insert
  <1> HIDE DEF T
  <1>1. TypeOK'
    <2>1. \A i \in 1..new :
            /\ heap'[i].live \in BOOLEAN /\ heap'[i].table \in Tables(FNames)
            /\ heap'[i].func # None => heap'[i].marshal \in Sigs
      <3>1. \A i \in 1..new : heap'[i].live \in BOOLEAN /\ heap'[i].table \in Tables(FNames)
        <4>1. \A i \in 1..new : heap'[i] \in Allocations BY <1>a, ElementOfSeq
        <4> QED BY <4>1 DEF Allocations
      <3>2. \A i \in 1..Len(heap) : heap[i].func # None => heap[i].marshal \in Sigs
        BY <1>h, HeapFacts DEF TypeOK
      <3>3. \A i \in 1..new : heap'[i].func # None => heap'[i].marshal \in Sigs
        BY <1>a, <1>n, <1>s, <3>2
      <3> QED BY <3>1, <3>3
    <2>2. known' \subseteq Services \X (FNames \cup {None}) \X (Funcs \cup {None})
      BY <1>h, <1>q DEF TypeOK
    <2> QED BY <1>h, <1>q, <1>t, <2>1, <2>2 DEF TypeOK, logVars, rotVars
  <1>2. HeapOK'
    <2>1. Bounded(service_table, Len(heap))' BY <1>q, <1>a, <1>n, <1>t DEF Bounded
    <2>2. ASSUME NEW i \in 1..new PROVE Bounded(heap'[i].table, new)
      <3>1. CASE i = new BY <1>a, <1>s, <3>1 DEF Bounded
      <3>2. CASE i \in 1..Len(heap) /\ i # At(svc)
        BY <1>a, <1>n, <1>t, <3>2 DEF Bounded
      <3>3. CASE i = At(svc)
        <4>1. Bounded(FTable(svc), Len(heap)) BY <1>t, <1>u DEF FTable
        <4>2. T[fname].key \in 1..new BY <1>i, <1>k, <1>n, <4>1 DEF Bounded
        <4> QED BY <1>i, <1>j, <1>n, <3>3, <4>1, <4>2 DEF Bounded
      <3> QED BY <1>n, <3>1, <3>2, <3>3
    <2> QED BY <1>a, <1>n, <2>1, <2>2 DEF HeapOK
  <1>3. ASSUME RegisterOnce PROVE TablesOK' /\ KnownOK' /\ FuncsOK'
    <2>0. TablesOK /\ KnownOK /\ FuncsOK /\ fname \notin DOMAIN FTable(svc)
      BY <1>q, <1>3 DEF RegInv
    <2>1. ASSUME NEW s \in svcs
          PROVE  /\ At(s)' = At(s) /\ At(s) \in 1..Len(heap)
                 /\ FTable(s)' = IF s = svc THEN T ELSE FTable(s)
                 /\ \A n \in DOMAIN FTable(s) : FTable(s)[n].value \in 1..Len(heap)
      <3>1. At(s)' = At(s) /\ At(s) \in 1..Len(heap) BY <1>q, <1>t DEF At, Bounded
      <3>2. s # svc => At(s) # At(svc) BY <1>q, <2>0 DEF TablesOK
      <3>3. FTable(s)' = IF s = svc THEN T ELSE FTable(s) BY <1>a, <1>j, <3>1, <3>2 DEF FTable
      <3>4. \A n \in DOMAIN FTable(s) : FTable(s)[n].value \in 1..Len(heap)
        BY <1>t, <3>1 DEF FTable, Bounded
      <3> QED BY <3>1, <3>3, <3>4
    \* The entries are those there were and the new one.
    <2>2. ASSUME NEW s \in svcs, NEW n \in DOMAIN FTable(s)'
          PROVE  \/ /\ n \in DOMAIN FTable(s) /\ FTable(s)'[n] = FTable(s)[n]
                    /\ FTable(s)[n].value \in 1..Len(heap)
                 \/ s = svc /\ n = fname /\ FTable(s)'[n].value = new /\ FTable(s)'[n].key = new
      <3>1. CASE s # svc BY <2>1, <3>1
      <3>2. CASE s = svc /\ n = fname BY <1>i, <2>0, <2>1, <3>2
      <3>3. CASE s = svc /\ n # fname BY <1>i, <2>0, <2>1, <3>3
      <3> QED BY <3>1, <3>2, <3>3
    <2>3. TablesOK'
      <3>1. \A x, s \in svcs : At(x)' = At(s)' => x = s
        BY <2>0, <2>1 DEF TablesOK
      <3>2. ASSUME NEW x \in svcs
            PROVE  service_table'[x].key = At(x)' /\ heap'[At(x)'].live
        BY <1>q, <1>a, <2>0, <2>1 DEF TablesOK
      <3>3. ASSUME NEW x \in svcs, NEW n \in DOMAIN FTable(x)'
            PROVE  /\ FTable(x)'[n].key = FTable(x)'[n].value
                   /\ heap'[FTable(x)'[n].value].live
        <4>1. CASE n \in DOMAIN FTable(x) /\ FTable(x)'[n] = FTable(x)[n]
                   /\ FTable(x)[n].value \in 1..Len(heap)
          BY <1>a, <2>0, <4>1 DEF TablesOK
        <4>2. CASE FTable(x)'[n].value = new /\ FTable(x)'[n].key = new
          BY <1>a, <1>s, <4>2
        <4> QED BY <2>2, <4>1, <4>2
      <3>4. ASSUME NEW x \in svcs, NEW n \in DOMAIN FTable(x)', NEW s \in svcs
            PROVE  /\ FTable(x)'[n].value # At(s)'
                   /\ \A m \in DOMAIN FTable(s)' :
                        FTable(x)'[n].value = FTable(s)'[m].value => x = s /\ n = m
        <4>1. FTable(x)'[n].value # At(s)'
          <5>1. CASE n \in DOMAIN FTable(x) /\ FTable(x)'[n] = FTable(x)[n]
            BY <2>0, <2>1, <5>1 DEF TablesOK
          <5>2. CASE FTable(x)'[n].value = new BY <1>n, <2>1, <5>2
          <5> QED BY <2>2, <5>1, <5>2
        <4>2. ASSUME NEW m \in DOMAIN FTable(s)', FTable(x)'[n].value = FTable(s)'[m].value
              PROVE  x = s /\ n = m
          <5>1. CASE FTable(x)'[n].value = new
            BY <1>n, <2>2, <4>2, <5>1
          <5>2. CASE FTable(x)'[n].value # new
            <6>1. n \in DOMAIN FTable(x) /\ FTable(x)'[n] = FTable(x)[n] BY <2>2, <5>2
            <6>2. m \in DOMAIN FTable(s) /\ FTable(s)'[m] = FTable(s)[m] BY <2>2, <4>2, <5>2
            <6> QED BY <2>0, <4>2, <6>1, <6>2 DEF TablesOK
          <5> QED BY <5>1, <5>2
        <4> QED BY <4>1, <4>2
      <3> QED BY <1>q, <3>1, <3>2, <3>3, <3>4 DEF TablesOK
    <2>4. FuncsOK'
      <3>1. ASSUME NEW x \in svcs, NEW n \in DOMAIN FTable(x)'
            PROVE  heap'[FTable(x)'[n].value].func \in Funcs
        <4>1. CASE n \in DOMAIN FTable(x) /\ FTable(x)'[n] = FTable(x)[n]
                   /\ FTable(x)[n].value \in 1..Len(heap)
          BY <1>a, <2>0, <4>1 DEF FuncsOK
        <4>2. CASE FTable(x)'[n].value = new BY <1>a, <1>s, <4>2
        <4> QED BY <2>2, <4>1, <4>2
      <3> QED BY <1>q, <3>1 DEF FuncsOK
    <2>5. KnownOK'
      <3>1. ASSUME NEW x \in Services
            PROVE  <<x, None, None>> \in known' <=> x \in DOMAIN service_table'
        <4>1. <<x, None, None>> \in known' <=> <<x, None, None>> \in known
          BY <1>h, <1>q
        <4> QED BY <1>q, <2>0, <4>1 DEF KnownOK
      <3>2. ASSUME NEW x \in Services, NEW n \in FNames, NEW g \in Funcs
            PROVE  <<x, n, g>> \in known' <=>
                     /\ x \in DOMAIN service_table' /\ n \in DOMAIN FTable(x)'
                     /\ heap'[FTable(x)'[n].value].func = g
        <4>1. CASE x = svc /\ n = fname
          <5>1. <<x, n, g>> \in known' <=> g = f BY <1>q, <4>1
          <5>2. n \in DOMAIN FTable(x)' /\ FTable(x)'[n].value = new
            BY <1>i, <1>q, <2>1, <4>1
          <5> QED BY <1>q, <1>a, <1>s, <4>1, <5>1, <5>2
        <4>2. CASE ~(x = svc /\ n = fname)
          <5>1. <<x, n, g>> \in known' <=> <<x, n, g>> \in known BY <1>q, <4>2
          <5>2. x \in svcs => (n \in DOMAIN FTable(x)' <=> n \in DOMAIN FTable(x))
            BY <1>i, <2>1, <4>2
          <5>3. x \in svcs /\ n \in DOMAIN FTable(x)' =>
                  heap'[FTable(x)'[n].value].func = heap[FTable(x)[n].value].func
            BY <1>a, <2>2, <4>2
          <5> QED BY <1>q, <2>0, <5>1, <5>2, <5>3 DEF KnownOK
        <4> QED BY <4>1, <4>2
      <3> QED BY <3>1, <3>2 DEF KnownOK
    <2> QED BY <2>3, <2>4, <2>5
  <1> QED BY <1>q, <1>1, <1>2, <1>3, QuietFacts DEF RegInv, Quiet

-----------------------------------------------------------------------------
\* The invariant is inductive.
LEMMA InvariantHolds == Spec => []Inv
  <1>1. ASSUME Inv, UNCHANGED vars PROVE Inv'
    <2>1. TypeOK' /\ CallsOK'
      BY <1>1 DEF Inv, TypeInv, TypeOK, CallsOK, vars, regVars, logVars, rotVars
    <2>2. HeapOK' BY <1>1, HeapUnchanged DEF Inv, TypeInv, vars
    <2>3. LogInv' BY <1>1, LogUnchanged DEF Inv, vars, regVars
    <2>4. RegInv => RegInv' BY <1>1, RegUnchanged DEF vars, regVars
    <2> QED BY <1>1, <2>1, <2>2, <2>3, <2>4 DEF Inv, TypeInv
  <1>2. ASSUME Inv, Next PROVE Inv'
    <2>1. ASSUME NEW t \in Threads, searpc_server_call_function(t) PROVE Inv'
      BY <1>2, <2>1, EnterStep, LookupStep, MarshalStep, LogStep, ReturnStep
      DEF searpc_server_call_function
    <2> QED
      BY <1>2, <2>1, InitStep, FinalStep, RegisterMarshalStep, CreateStep, RemoveStep,
         RegisterFunctionStep, RotatorStep
      DEF Next
  <1> QED BY InitInv, <1>1, <1>2, PTL DEF Spec

\* Every variable keeps its type, whatever the numbers of services, functions,
\* threads, rotators, allocations and files.
THEOREM TypeCorrect == Spec => []TypeOK
  <1>1. Inv => TypeOK BY DEF Inv, TypeInv
  <1> QED BY InvariantHolds, <1>1, PTL

\* However calls interleave with rotations, a line is logged only for a call
\* whose beginning was timed, though slow_log_fp is tested without the lock,
\* unless a rotator that set the first log is about to call fclose(NULL).
THEOREM LoggedCallsAreTimed == Spec => []LoggedIsTimed
  <1>1. Inv => LoggedIsTimed BY DEF Inv, LogInv, LockOK, LoggedIsTimed
  <1> QED BY InvariantHolds, <1>1, PTL

\* Any number of threads may rotate the log while any number of calls are
\* logged: nobody writes to a closed file, every file but the current one is
\* closed by exactly one rotator, and fclose gets NULL only in a server started
\* without a log, from one rotator.
THEOREM RotationIsSafe == Spec => []RotationSafe
  <1>1. ASSUME Inv PROVE RotationSafe
    <2>0. /\ LockOK /\ FilesOK /\ None \notin Nat /\ files \in Nat /\ closed \subseteq 1..files
          /\ slow_log_fp \in Files
      BY <1>1, ServerAssumption DEF Inv, TypeInv, TypeOK, LogInv
    <2>1. ASSUME NEW t \in Threads, pc[t] = "printing"
          PROVE  call[t].file \notin closed \cup {None}
      <3>1. call[t].file = slow_log_fp /\ slow_log_fp # None BY <2>0, <2>1 DEF LockOK
      <3>2. slow_log_fp \notin closed
        <4>1. 0 \notin closed BY <2>0
        <4> QED BY <2>0, <3>1, <4>1 DEF FilesOK, stdout
      <3> QED BY <3>1, <3>2
    <2>2. /\ \A r \in Rotators : Stuck(r) => ~had_log
          /\ \A r, s \in Rotators : Stuck(r) /\ Stuck(s) => r = s
      BY <2>0 DEF FilesOK, Stuck
    <2>3. ASSUME NEW i \in (1..files) \ closed
          PROVE  Cardinality({r \in Rotators : rpc[r] = "swap" /\ fp[r] = i})
                   + Cardinality({r \in Rotators : rpc[r] = "close" /\ oldfp[r] = i})
                   + (IF slow_log_fp = i THEN 1 ELSE 0) = 1
      <3> DEFINE S == {r \in Rotators : rpc[r] = "swap" /\ fp[r] = i}
                 C == {r \in Rotators : rpc[r] = "close" /\ oldfp[r] = i}
      <3> SUFFICES Cardinality(S) + Cardinality(C) + (IF slow_log_fp = i THEN 1 ELSE 0) = 1
        OBVIOUS
      <3>0. Cardinality({}) = 0 BY FS_EmptySet
      <3>1. CASE slow_log_fp = i
        <4>1. S = {} /\ C = {} BY <2>0, <3>1 DEF FilesOK
        <4> HIDE DEF S, C
        <4> QED BY <3>0, <3>1, <4>1
      <3>2. ASSUME slow_log_fp # i, NEW r \in Rotators, Swapping(r, i)
            PROVE  Cardinality(S) + Cardinality(C) + 0 = 1
        <4>1. S = {r} /\ C = {} BY <2>0, <3>2 DEF FilesOK, Swapping
        <4>2. Cardinality({r}) = 1 BY FS_Singleton
        <4> HIDE DEF S, C
        <4> QED BY <3>0, <4>1, <4>2
      <3>3. ASSUME slow_log_fp # i, NEW r \in Rotators, Closing(r, i)
            PROVE  Cardinality(S) + Cardinality(C) + 0 = 1
        <4>1. S = {} /\ C = {r} BY <2>0, <3>3 DEF FilesOK, Closing
        <4>2. Cardinality({r}) = 1 BY FS_Singleton
        <4> HIDE DEF S, C
        <4> QED BY <3>0, <4>1, <4>2
      <3>4. slow_log_fp = i \/ \E r \in Rotators : Swapping(r, i) \/ Closing(r, i)
        BY <2>0, <2>3 DEF FilesOK
      <3> QED BY <3>1, <3>2, <3>3, <3>4
    <2> QED BY <2>1, <2>2, <2>3 DEF RotationSafe
  <1> QED BY InvariantHolds, <1>1, PTL

\* If the names of a service are registered once, then after any sequence of
\* creations, registrations and removals, with any calls in between, the tables
\* lead to nothing that is freed, and neither does a call under way.
THEOREM TablesStayLive ==
  ASSUME RegisterOnce
  PROVE  Spec => []TablesLive
  <1>1. ASSUME Inv PROVE TablesLive
    <2>0. TablesOK /\ FoundOK BY <1>1 DEF Inv, RegInv
    <2>1. ASSUME NEW svc \in DOMAIN service_table
          PROVE  /\ heap[service_table[svc].key].live /\ heap[At(svc)].live
                 /\ \A fname \in DOMAIN FTable(svc) :
                      /\ heap[FTable(svc)[fname].key].live
                      /\ heap[FTable(svc)[fname].value].live
      BY <2>0 DEF TablesOK
    <2>2. ASSUME NEW t \in Threads, pc[t] \in {"found", "ran"} PROVE heap[call[t].item].live
      <3>1. /\ call[t].svc \in DOMAIN service_table
            /\ call[t].fname \in DOMAIN FTable(call[t].svc)
            /\ call[t].item = FTable(call[t].svc)[call[t].fname].value
        BY <2>0, <2>2 DEF FoundOK
      <3> QED BY <2>1, <3>1
    <2> QED BY <2>1, <2>2 DEF TablesLive, At, FTable
  <1> QED BY InvariantHolds, <1>1, PTL

\* Under the same condition a call runs the function that the last registration
\* of its name named, and an error says truly what is missing.
THEOREM CallsAreDispatched ==
  ASSUME RegisterOnce
  PROVE  Spec => []DispatchesKnown
  <1>1. Inv => DispatchesKnown BY DEF Inv, RegInv
  <1> QED BY InvariantHolds, <1>1, PTL
==============================================================================
