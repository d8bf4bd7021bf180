---------------------------- MODULE PolicyStore ----------------------------
(***************************************************************************)
(* The policy store (state/accesspolicy/store.go): a dictionary under a     *)
(* read-write mutex, with Get for every request that is checked, Update and *)
(* Delete for the worker reconciler, and Stream for the dashboard, whose    *)
(* goroutine keeps the mutex for as long as the page takes the policies.    *)
(*                                                                          *)
(* The actions leave it to the modules that use the store to say who calls  *)
(* what; there is one writer, the one goroutine of the worker controller.   *)
(***************************************************************************)
EXTENDS FiniteSets, Functions

CONSTANTS
    Dashboards,  \* the dashboard requests that can be under way together
    Quitters,    \* those whose client may go away
    None

VARIABLES
    dict,    \* store.dict
    readers, \* store.mu: the goroutines that have it for reading
    call,    \* the Update or Delete under way, which waits for store.mu or has it
    dash     \* the goroutine of each Stream, and what it has still to send

storeVars == <<dict, readers, call, dash>>

Empty == [x \in {} |-> None]
NoCall == [on |-> FALSE, name |-> None, pol |-> None]
Quiet == [at |-> "quiet", todo |-> {}, gone |-> FALSE]

StoreInit ==
    /\ dict = Empty
    /\ readers = {}
    /\ call = NoCall
    /\ dash = [d \in Dashboards |-> Quiet]

-----------------------------------------------------------------------------
\* Faulty: readers do not respect a writer.
Open_Always == TRUE

\* A writer, even one that waits, keeps new readers out.
Open == ~call.on

\* Get returns at once when it gets the lock.
Get(name) == IF name \in DOMAIN dict THEN dict[name] ELSE None

\* Update, or Delete if there is no policy, waits for the lock ...
UpdateCall(name, pol) ==
    /\ ~call.on
    /\ call' = [on |-> TRUE, name |-> name, pol |-> pol]
    /\ UNCHANGED <<dict, readers, dash>>

\* Faulty: an update adds routes to the policy that is there.
Written_Merges ==
    IF call.pol = None THEN Restrict(dict, DOMAIN dict \ {call.name})
    ELSE [k \in DOMAIN dict \cup {call.name} |->
            IF k # call.name THEN dict[k]
            ELSE IF k \notin DOMAIN dict THEN call.pol
            ELSE [call.pol EXCEPT !.routes =
                    [n \in DOMAIN @ \cup DOMAIN dict[k].routes |->
                       IF n \in DOMAIN dict[k].routes THEN dict[k].routes[n] ELSE @[n]]]]

Written ==
    IF call.pol = None THEN Restrict(dict, DOMAIN dict \ {call.name})
    ELSE [k \in DOMAIN dict \cup {call.name} |-> IF k = call.name THEN call.pol ELSE dict[k]]

\* ... until the readers have left.
UpdateRun ==
    /\ call.on /\ readers = {}
    /\ dict' = Written
    /\ call' = NoCall
    /\ UNCHANGED <<readers, dash>>

-----------------------------------------------------------------------------
(* Stream, and the page that takes from it *)

StreamStart(d) ==
    /\ dash[d].at = "quiet"
    /\ dash' = [dash EXCEPT ![d].at = "begin"]
    /\ UNCHANGED <<dict, readers, call>>

\* Faulty: the dictionary is walked without the lock.
StreamLock_NoLock(d) ==
    /\ dash[d].at = "begin"
    /\ dash' = [dash EXCEPT ![d].at = "send", ![d].todo = DOMAIN dict]
    /\ UNCHANGED <<dict, readers, call>>

StreamLock(d) ==
    /\ dash[d].at = "begin" /\ Open
    /\ readers' = readers \cup {d}
    /\ dash' = [dash EXCEPT ![d].at = "send", ![d].todo = DOMAIN dict]
    /\ UNCHANGED <<dict, call>>

\* The channel has no buffer: a policy is sent when the page takes it.
StreamSend(d, name) ==
    /\ dash[d].at = "send" /\ name \in dash[d].todo /\ ~dash[d].gone
    /\ dash' = [dash EXCEPT ![d].todo = @ \ {name}]
    /\ UNCHANGED <<dict, readers, call>>

\* Faulty: the lock is not given back.
StreamEnd_KeepsLock(d) ==
    /\ dash[d].at = "send" /\ dash[d].todo = {}
    /\ dash' = [dash EXCEPT ![d] = Quiet]
    /\ UNCHANGED <<dict, readers, call>>

StreamEnd(d) ==
    /\ dash[d].at = "send" /\ dash[d].todo = {}
    /\ readers' = readers \ {d}
    /\ dash' = [dash EXCEPT ![d] = Quiet]
    /\ UNCHANGED <<dict, call>>

\* The template gives up when the client is gone, and takes no more.
StreamAbandon(d) ==
    /\ dash[d].at # "quiet" /\ ~dash[d].gone /\ d \in Quitters
    /\ dash' = [dash EXCEPT ![d].gone = TRUE]
    /\ UNCHANGED <<dict, readers, call>>

StreamStep(d) == StreamLock(d) \/ StreamEnd(d) \/ \E name \in DOMAIN dict : StreamSend(d, name)

\* The process ends, and another starts.
StoreLost ==
    /\ dict' = Empty
    /\ readers' = {}
    /\ call' = NoCall
    /\ dash' = [d \in Dashboards |-> Quiet]

-----------------------------------------------------------------------------
\* A goroutine that sends to a page that has gone.
Stuck(d) == dash[d].at = "send" /\ dash[d].gone /\ dash[d].todo # {}

StoreTypeOK ==
    /\ call.on \in BOOLEAN
    /\ dash \in [Dashboards -> [at : {"quiet", "begin", "send"}, todo : SUBSET DOMAIN dict,
                                gone : BOOLEAN]]
    /\ readers = {d \in Dashboards : dash[d].at = "send"}
    /\ \A d \in Dashboards : d \notin readers => dash[d].todo = {}
=============================================================================
