----------------------------- MODULE RpcServer ------------------------------
(***************************************************************************)
(* The server library (lib/searpc-server.c): the tables of services,       *)
(* functions and marshals, searpc_server_call_function run by many         *)
(* transport threads at once, and the slow log they write to while other   *)
(* threads rotate it.                                                      *)
(*                                                                         *)
(* The tables have no lock and hold pointers into what they map to: the    *)
(* key of a function is item->fname, that of a service service->name.  An  *)
(* allocation is therefore a place in heap, and an entry has the owner of  *)
(* its key apart from its value.  The application changes the tables only  *)
(* while no call runs.  It may rotate a log that it never opened: fclose    *)
(* then gets NULL, which ends the process.                                 *)
(***************************************************************************)
EXTENDS Naturals, Sequences, FiniteSets

CONSTANTS
  Services, FNames,   \* names of services and functions
  Funcs,              \* the application's functions
  Sigs,               \* signatures
  Filtered,           \* filtered_funcs
  Threads,            \* threads of the transport
  Rotators,           \* threads that call searpc_server_reopen_slow_log
  RegisterOnce,       \* the application registers a name of a service once
  MaxAllocs,          \* bound: services and function items ever allocated
  MaxFiles,           \* bound: log files ever opened
  None                \* NULL

ASSUME ServerAssumption ==
  /\ Filtered \subseteq FNames /\ RegisterOnce \in BOOLEAN
  /\ MaxAllocs \in Nat /\ MaxFiles \in Nat \ {0}
  /\ None \notin Threads \cup Rotators \cup Nat \cup FNames \cup Funcs

VARIABLES
  phase,           \* "new", "up" after searpc_server_init, "final"
  service_table,   \* the entry of each service's name
  marshal_table,   \* the registered signatures
  heap,            \* SearpcServices and FuncItems, in order of allocation
  known,           \* history: what the application was told is registered
  pc, call,        \* where each thread is in a call, and its locals
  log_to_stdout, slow_log_fp, slow_log_lock,
  had_log,         \* history: the server was initialised with a log
  files, closed,   \* log files opened so far, and those closed
  rpc, fp, oldfp   \* where each rotator is, and its locals

regVars == <<phase, service_table, marshal_table, heap, known>>
logVars == <<log_to_stdout, had_log, slow_log_fp, slow_log_lock, files, closed>>
rotVars == <<rpc, fp, oldfp>>
vars    == <<regVars, logVars, rotVars, pc, call>>

Entries == [key : 1..MaxAllocs, value : 1..MaxAllocs]
Tables(names) == UNION {[d -> Entries] : d \in SUBSET names}
NoTable == [x \in {} |-> None]

Service      == [live |-> TRUE, func |-> None, marshal |-> None, table |-> NoTable]
Item(f, sig) == [live |-> TRUE, func |-> f, marshal |-> sig, table |-> NoTable]

Answers == {"none", "value", "500", "501", "511"}
NoCall  == [svc |-> None, fname |-> None, json |-> TRUE, start |-> FALSE,
            item |-> None, func |-> None, answer |-> "none", file |-> None]
stdout  == 0
Files   == {None, stdout} \cup 1..MaxFiles

TypeOK ==
  /\ phase \in {"new", "up", "final"}
  /\ service_table \in Tables(Services)
  /\ marshal_table \subseteq Sigs
  /\ \A i \in DOMAIN heap :
       /\ heap[i].live \in BOOLEAN /\ heap[i].table \in Tables(FNames)
       /\ heap[i].func # None => heap[i].marshal \in Sigs
  /\ known \subseteq Services \X (FNames \cup {None}) \X (Funcs \cup {None})
  /\ pc \in [Threads -> {"idle", "enter", "found", "ran", "print", "printing", "done"}]
  /\ \A t \in Threads : call[t].answer \in Answers
  /\ log_to_stdout \in BOOLEAN /\ had_log \in BOOLEAN
  /\ slow_log_fp \in Files /\ slow_log_lock \in Threads \cup {None}
  /\ files \in 0..MaxFiles /\ closed \subseteq 1..files
  /\ rpc \in [Rotators -> {"idle", "swap", "close"}]
  /\ fp \in [Rotators -> Files] /\ oldfp \in [Rotators -> Files]

Init ==
  /\ phase = "new"
  /\ service_table = NoTable /\ marshal_table = {} /\ heap = <<>> /\ known = {}
  /\ pc = [t \in Threads |-> "idle"] /\ call = [t \in Threads |-> NoCall]
  /\ log_to_stdout = FALSE /\ had_log = FALSE
  /\ slow_log_fp = None /\ slow_log_lock = None
  /\ files = 0 /\ closed = {}
  /\ rpc = [r \in Rotators |-> "idle"]
  /\ fp = [r \in Rotators |-> None] /\ oldfp = [r \in Rotators |-> None]

\* searpc_server_init, or searpc_server_init_with_slow_log with a file or with
\* SEAFILE_LOG_TO_STDOUT.
searpc_server_init ==
  /\ phase = "new"
  /\ phase' = "up"
  /\ \E log \in {None, stdout, 1} :
       /\ slow_log_fp' = log
       /\ log_to_stdout' = (log = stdout) /\ had_log' = (log # None)
       /\ files' = IF log = 1 THEN 1 ELSE 0
  /\ UNCHANGED <<service_table, marshal_table, heap, known, slow_log_lock, closed,
                 rotVars, pc, call>>

-----------------------------------------------------------------------------
(* The tables.                                                             *)

\* GLib's hash table: inserting a name that is there keeps its old key.
Insert(table, name, i) ==
  [n \in DOMAIN table \cup {name} |->
     IF n # name THEN table[n]
     ELSE [key |-> IF name \in DOMAIN table THEN table[name].key ELSE i, value |-> i]]

\* The names that a look-up may or may not find: those whose key is freed.
Dangling(table) == {name \in DOMAIN table : ~heap[table[name].key].live}

Values(table) == {table[name].value : name \in DOMAIN table}

\* func_item_free frees the name with the item, service_free the functions.
Free(h, is) == [i \in DOMAIN h |-> IF i \in is THEN [h[i] EXCEPT !.live = FALSE] ELSE h[i]]

service_free(h, is) == Free(h, is \cup UNION {Values(h[i].table) : i \in is})

\* The application changes the tables while no call runs.
Quiet == phase = "up" /\ \A t \in Threads : pc[t] = "idle"

searpc_server_register_marshal(sig) ==
  /\ Quiet
  /\ marshal_table' = marshal_table \cup {sig}
  /\ UNCHANGED <<phase, service_table, heap, known, logVars, rotVars, pc, call>>

\* MUTANT of searpc_create_service: the service is not looked up first.
create_service_NoLookup(svc) ==
  /\ Quiet /\ Len(heap) < MaxAllocs
  /\ heap' = Append(IF svc \in DOMAIN service_table
                      THEN service_free(heap, {service_table[svc].value})
                      ELSE heap, Service)
  /\ service_table' = Insert(service_table, svc, Len(heap) + 1)
  /\ known' = known \cup {<<svc, None, None>>}
  /\ UNCHANGED <<phase, marshal_table, logVars, rotVars, pc, call>>

searpc_create_service(svc) ==
  /\ Quiet
  /\ IF svc \in DOMAIN service_table
       THEN UNCHANGED <<heap, service_table>>
       ELSE /\ Len(heap) < MaxAllocs
            /\ heap' = Append(heap, Service)
            /\ service_table' = Insert(service_table, svc, Len(heap) + 1)
  /\ known' = known \cup {<<svc, None, None>>}
  /\ UNCHANGED <<phase, marshal_table, logVars, rotVars, pc, call>>

\* MUTANT of searpc_remove_service: a service that has functions stays.
remove_service_OnlyEmpty(svc) ==
  /\ Quiet /\ svc \in DOMAIN service_table
  /\ LET i == service_table[svc].value
     IN IF heap[i].table = NoTable
          THEN /\ heap' = service_free(heap, {i})
               /\ service_table' = [s \in DOMAIN service_table \ {svc} |-> service_table[s]]
          ELSE UNCHANGED <<heap, service_table>>
  /\ known' = {k \in known : k[1] # svc}
  /\ UNCHANGED <<phase, marshal_table, logVars, rotVars, pc, call>>

searpc_remove_service(svc) ==
  /\ Quiet /\ svc \in DOMAIN service_table
  /\ heap' = service_free(heap, {service_table[svc].value})
  /\ service_table' = [s \in DOMAIN service_table \ {svc} |-> service_table[s]]
  /\ known' = {k \in known : k[1] # svc}
  /\ UNCHANGED <<phase, marshal_table, logVars, rotVars, pc, call>>

\* A registered function, and the item it replaces freed.
Registered(svc, f, fname, sig) ==
  LET s   == service_table[svc].value
      old == {heap[s].table[n].value : n \in {fname} \cap DOMAIN heap[s].table}
  IN [Append(Free(heap, old), Item(f, sig))
        EXCEPT ![s].table = Insert(@, fname, Len(heap) + 1)]

\* MUTANT of searpc_server_register_function: the marshal is not looked up.
register_function_NoMarshal(svc, f, fname, sig) ==
  /\ Quiet /\ Len(heap) < MaxAllocs
  /\ svc \in DOMAIN service_table
  /\ heap' = Registered(svc, f, fname, IF sig \in marshal_table THEN sig ELSE None)
  /\ known' = known \cup {<<svc, fname, f>>}
  /\ UNCHANGED <<phase, service_table, marshal_table, logVars, rotVars, pc, call>>

\* Without the service or the marshal it returns FALSE and changes nothing.
searpc_server_register_function(svc, f, fname, sig) ==
  /\ Quiet /\ Len(heap) < MaxAllocs
  /\ svc \in DOMAIN service_table
  /\ sig \in marshal_table
  /\ RegisterOnce => fname \notin DOMAIN heap[service_table[svc].value].table
  /\ heap' = Registered(svc, f, fname, sig)
  /\ known' = {k \in known : k[1] # svc \/ k[2] # fname} \cup {<<svc, fname, f>>}
  /\ UNCHANGED <<phase, service_table, marshal_table, logVars, rotVars, pc, call>>

\* Both tables are destroyed; the slow log stays open.
searpc_server_final ==
  /\ Quiet
  /\ phase' = "final"
  /\ heap' = service_free(heap, Values(service_table))
  /\ service_table' = NoTable /\ marshal_table' = {} /\ known' = {}
  /\ UNCHANGED <<logVars, rotVars, pc, call>>

-----------------------------------------------------------------------------
(* searpc_server_call_function.                                            *)

\* A call enters; the clock is read if there is a log.
call_function_Enter(t) ==
  /\ phase = "up" /\ pc[t] = "idle"
  /\ \E svc \in Services, fname \in FNames, json \in BOOLEAN :
       call' = [call EXCEPT ![t] = [NoCall EXCEPT !.svc = svc, !.fname = fname,
                                      !.json = json, !.start = slow_log_fp # None]]
  /\ pc' = [pc EXCEPT ![t] = "enter"]
  /\ UNCHANGED <<regVars, logVars, rotVars>>

\* error_to_json.
Fails(t, code) ==
  /\ pc' = [pc EXCEPT ![t] = "done"]
  /\ call' = [call EXCEPT ![t].answer = code]

\* The service is looked up, the text parsed, the function looked up.
call_function_Lookup(t) ==
  /\ pc[t] = "enter"
  /\ \E lost \in SUBSET Dangling(service_table) :
       LET svc == call[t].svc IN
       IF svc \notin DOMAIN service_table \ lost THEN Fails(t, "501")
       ELSE IF ~call[t].json THEN Fails(t, "511")
       ELSE LET table == heap[service_table[svc].value].table
                fname == call[t].fname
            IN \E gone \in SUBSET Dangling(table) :
                 IF fname \notin DOMAIN table \ gone THEN Fails(t, "500")
                 ELSE /\ pc' = [pc EXCEPT ![t] = "found"]
                      /\ call' = [call EXCEPT ![t].item = table[fname].value]
  /\ UNCHANGED <<regVars, logVars, rotVars>>

\* fitem->marshal->mfunc runs the function.
call_function_Marshal(t) ==
  /\ pc[t] = "found"
  /\ pc' = [pc EXCEPT ![t] = "ran"]
  /\ call' = [call EXCEPT ![t].func = heap[call[t].item].func, ![t].answer = "value"]
  /\ UNCHANGED <<regVars, logVars, rotVars>>

\* A function the application wants to keep out of the log.
rpc_include_passwd(fname) == fname \in Filtered

\* slow_log_fp is tested again, without the lock, and the call is timed.
call_function_Timed(t) ==
  /\ pc[t] = "ran"
  /\ \E slow \in BOOLEAN :
       pc' = [pc EXCEPT ![t] = IF slow /\ slow_log_fp # None /\ ~rpc_include_passwd(call[t].fname)
                                 THEN "print" ELSE "done"]
  /\ UNCHANGED <<regVars, logVars, rotVars, call>>

\* The lock is taken and the line is being written to slow_log_fp.
print_slow_log_Lock(t) ==
  /\ pc[t] = "print" /\ slow_log_lock = None
  /\ slow_log_lock' = t
  /\ pc' = [pc EXCEPT ![t] = "printing"]
  /\ call' = [call EXCEPT ![t].file = slow_log_fp]
  /\ UNCHANGED <<regVars, rotVars, log_to_stdout, had_log, slow_log_fp, files, closed>>

\* The line is written and flushed.
print_slow_log_Unlock(t) ==
  /\ pc[t] = "printing"
  /\ slow_log_lock' = None
  /\ pc' = [pc EXCEPT ![t] = "done"]
  /\ UNCHANGED <<regVars, rotVars, log_to_stdout, had_log, slow_log_fp, files, closed, call>>

call_function_Return(t) ==
  /\ pc[t] = "done"
  /\ pc' = [pc EXCEPT ![t] = "idle"]
  /\ call' = [call EXCEPT ![t] = NoCall]
  /\ UNCHANGED <<regVars, logVars, rotVars>>

-----------------------------------------------------------------------------
(* searpc_server_reopen_slow_log.                                          *)

\* With the log on stdout it returns at once.
reopen_slow_log_Open(r) ==
  /\ phase # "new" /\ rpc[r] = "idle"
  /\ ~log_to_stdout /\ files < MaxFiles
  /\ files' = files + 1
  /\ fp' = [fp EXCEPT ![r] = files + 1]
  /\ rpc' = [rpc EXCEPT ![r] = "swap"]
  /\ UNCHANGED <<regVars, log_to_stdout, had_log, slow_log_fp, slow_log_lock, closed, oldfp,
                 pc, call>>

\* MUTANT of reopen_slow_log_Swap: without the lock.
Swap_NoLock(r) ==
  /\ rpc[r] = "swap"
  /\ oldfp' = [oldfp EXCEPT ![r] = slow_log_fp]
  /\ slow_log_fp' = fp[r]
  /\ rpc' = [rpc EXCEPT ![r] = "close"]
  /\ UNCHANGED <<regVars, log_to_stdout, had_log, slow_log_lock, files, closed, fp, pc, call>>

reopen_slow_log_Swap(r) ==
  /\ rpc[r] = "swap" /\ slow_log_lock = None
  /\ oldfp' = [oldfp EXCEPT ![r] = slow_log_fp]
  /\ slow_log_fp' = fp[r]
  /\ rpc' = [rpc EXCEPT ![r] = "close"]
  /\ UNCHANGED <<regVars, log_to_stdout, had_log, slow_log_lock, files, closed, fp, pc, call>>

\* MUTANT of reopen_slow_log_Close: a NULL is not closed, and the process goes on.
Close_NullChecked(r) ==
  /\ rpc[r] = "close"
  /\ closed' = closed \cup ({oldfp[r]} \ {None})
  /\ fp' = [fp EXCEPT ![r] = None]
  /\ oldfp' = [oldfp EXCEPT ![r] = None]
  /\ rpc' = [rpc EXCEPT ![r] = "idle"]
  /\ UNCHANGED <<regVars, log_to_stdout, had_log, slow_log_fp, slow_log_lock, files, pc, call>>

\* fclose(NULL) ends the process: the rotator never gets past it, and what the
\* other threads still do is what they did before it ended.
reopen_slow_log_Close(r) ==
  /\ rpc[r] = "close" /\ oldfp[r] # None
  /\ closed' = closed \cup {oldfp[r]}
  /\ fp' = [fp EXCEPT ![r] = None]
  /\ oldfp' = [oldfp EXCEPT ![r] = None]
  /\ rpc' = [rpc EXCEPT ![r] = "idle"]
  /\ UNCHANGED <<regVars, log_to_stdout, had_log, slow_log_fp, slow_log_lock, files, pc, call>>

searpc_server_call_function(t) ==
  \/ call_function_Enter(t) \/ call_function_Lookup(t) \/ call_function_Marshal(t)
  \/ call_function_Timed(t) \/ print_slow_log_Lock(t) \/ print_slow_log_Unlock(t)
  \/ call_function_Return(t)

searpc_server_reopen_slow_log(r) ==
  \/ reopen_slow_log_Open(r) \/ reopen_slow_log_Swap(r) \/ reopen_slow_log_Close(r)

Next ==
  \/ searpc_server_init \/ searpc_server_final
  \/ \E sig \in Sigs : searpc_server_register_marshal(sig)
  \/ \E svc \in Services : searpc_create_service(svc) \/ searpc_remove_service(svc)
  \/ \E svc \in Services, f \in Funcs, fname \in FNames, sig \in Sigs :
       searpc_server_register_function(svc, f, fname, sig)
  \/ \E t \in Threads : searpc_server_call_function(t)
  \/ \E r \in Rotators : searpc_server_reopen_slow_log(r)

Spec == Init /\ [][Next]_vars

-----------------------------------------------------------------------------
\* Whatever was created, registered and removed before, everything the tables
\* lead to is allocated, the strings their keys point to included, and so is
\* the item a call uses, until after it ran (searpc-server.c:61-96, 267-317,
\* 404, 416).
TablesLive ==
  /\ \A svc \in DOMAIN service_table :
       LET e == service_table[svc] table == heap[e.value].table IN
       /\ heap[e.key].live /\ heap[e.value].live
       /\ \A fname \in DOMAIN table :
            heap[table[fname].key].live /\ heap[table[fname].value].live
  /\ \A t \in Threads : pc[t] \in {"found", "ran"} => heap[call[t].item].live

\* A call runs the function that the last successful registration of its name
\* named, in a service not removed since; and the codes 501 and 500 tell the
\* missing service from the missing function (searpc-server.c:385-412).
DispatchesKnown ==
  \A t \in Threads : LET k == call[t] IN
    /\ k.answer = "value" => <<k.svc, k.fname, k.func>> \in known
    /\ k.answer = "501"   => <<k.svc, None, None>> \notin known
    /\ k.answer = "500"   => /\ <<k.svc, None, None>> \in known
                             /\ \A f \in Funcs : <<k.svc, k.fname, f>> \notin known

\* A rotator that is about to call fclose(NULL).
Stuck(r) == rpc[r] = "close" /\ oldfp[r] = None

\* Log rotation by several threads, while calls are logged: nobody writes to a
\* closed file, and every file but the current one is closed by exactly one
\* rotator.  fclose gets NULL only in a server that was started without a log,
\* and from one rotator only, though any number may first set the log at once
\* (searpc-server.c:236-253, 351-361).
RotationSafe ==
  /\ \A t \in Threads : pc[t] = "printing" => call[t].file \notin closed \cup {None}
  /\ \A r \in Rotators : Stuck(r) => ~had_log
  /\ \A r, s \in Rotators : Stuck(r) /\ Stuck(s) => r = s
  /\ \A i \in (1..files) \ closed :
       Cardinality({r \in Rotators : rpc[r] = "swap" /\ fp[r] = i})
         + Cardinality({r \in Rotators : rpc[r] = "close" /\ oldfp[r] = i})
         + (IF slow_log_fp = i THEN 1 ELSE 0) = 1

\* slow_log_fp is tested twice in a call, both times without the lock.  A line
\* is logged only for a call whose beginning was timed, though the log may be
\* rotated in between, unless a rotation set the log of a server that had none:
\* then the line belongs to the moment before fclose(NULL) ends the process
\* (searpc-server.c:236-253, 380-382, 415-419).
LoggedIsTimed ==
  \A t \in Threads :
    pc[t] \in {"print", "printing"} => call[t].start \/ \E r \in Rotators : Stuck(r)

\* README.markdown:205 of the name a function is registered under: "It would be
\* the key of your function in the fucntion hash table".
NameIsKey ==
  \A svc \in DOMAIN service_table :
    LET table == heap[service_table[svc].value].table
    IN \A fname \in DOMAIN table : table[fname].key = table[fname].value
=============================================================================
