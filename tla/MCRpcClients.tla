---------------------------- MODULE MCRpcClients ----------------------------
(***************************************************************************)
(* The clients of the RPC server on small instances.  They share no state, *)
(* so a behaviour exercises one of them: the web socket; or the client     *)
(* over HTTP under a cache of items whose batches are its calls, batch n   *)
(* the call n; or delayAction and two other calls, 0, which lists the      *)
(* methods, and 3, which the page may make again when there is an error;   *)
(* or two objects, which it compares.                                      *)
(***************************************************************************)
EXTENDS WsRpc, HttpRpc, DataCache, Json, TLC

CONSTANTS c1, c2, ma, mb

Methods == {<<ma>>, <<mb>>, <<ma, mb>>, <<ma, ma>>}

\* Objects two levels deep: with the values of Flat under one key, or beside another.
Filled(t, ks, s) == Holder(t, ks, [k \in ToSet(ks) |-> s[CHOOSE i \in DOMAIN ks : ks[i] = k]])
Flat == Leaves \cup {Filled(t, <<>>, <<>>) : t \in {"array", "object"}}
        \cup {Filled(t, <<"0">>, <<x>>) : t \in {"array", "object"}, x \in Leaves}
        \cup {Filled(t, <<"0", "1">>, <<x, Num(1)>>) : t \in {"array", "object"}, x \in Leaves}
        \cup {Filled("object", <<"m", "n">>, <<x, Num(1)>>) : x \in Leaves}
        \cup {Filled("object", <<"n", "m">>, <<Num(1), x>>) : x \in Leaves}
Empty == Filled("object", <<>>, <<>>)
MCObjects ==
    {Empty} \cup {Filled("object", <<"m">>, <<x>>) : x \in Flat}
    \cup {Filled("object", <<"m", "n">>, <<x, y>>) :
              x \in Flat, y \in {Num(1), Filled("array", <<"0">>, <<Num(2)>>)}}
    \cup {Filled("object", <<"n", "m">>, <<Num(1), x>>) : x \in Flat}
MCPositions == {<<>>, <<"0">>, <<"0", "1">>}

\* Batch n is the call n.
ASSUME ClientsAssumption == {0, 3} \cup 1 .. MaxBatches \subseteq Posts

VARIABLE part

ClientsInit ==
    /\ part \in {"socket", "data", "others", "objects"}
    /\ Init /\ HttpInit /\ DataInit
    /\ part # "data" => strict = FALSE
    /\ old \in Objects /\ nw \in Objects
    /\ part # "objects" => old = Empty /\ nw = Empty

\* The batch n of the cache is the call n; cb answers what that answers.
DataGoesOn ==
    \/ Fire /\ Post(Len(batches'))
    \/ \E n \in Posts : state[n] = "ended" /\ Arrive(n, result[n] = "result") /\ UNCHANGED httpVars
    \/ \E n \in Posts : Advance(n) /\ UNCHANGED dataVars

CachePart == DataGoesOn \/ \E i \in Wanted : Resolve(i) /\ UNCHANGED httpVars

OthersPart ==
    \/ (Exec \/ Elapse) /\ UNCHANGED httpVars
    \/ \E n \in {0, 3} : (Post(n) \/ ListMethods(n) \/ Advance(n)) /\ UNCHANGED dataVars

ClientsNext ==
    \/ part = "socket" /\ Next /\ UNCHANGED <<httpVars, dataVars, old, nw, part>>
    \/ part = "data" /\ CachePart /\ UNCHANGED <<vars, old, nw, part>>
    \/ part = "others" /\ OthersPart /\ UNCHANGED <<vars, old, nw, part>>

\* What the page has begun goes on: sockets, timers and answers.
ClientsSpec ==
    /\ ClientsInit /\ [][ClientsNext]_<<vars, httpVars, dataVars, old, nw, part>>
    /\ WF_vars(Open) /\ WF_vars(Close) /\ WF_vars(Retry)
    /\ WF_vars(\E i \in Ids : Execute(i)) /\ WF_vars(\E m \in replies : OnMessage(m))
    /\ WF_<<httpVars, dataVars>>(part = "data" /\ DataGoesOn /\ UNCHANGED <<vars, old, nw, part>>)

-----------------------------------------------------------------------------
(* Properties *)

\* The functions on documents and method names do what is meant.
FunctionsAgree == DiffRestores /\ EqualIsSame /\ ObjectHasMethods

\* Every item the page asks for arrives, or its batch has failed for good.
ItemsArrive == []<>(kept \subseteq settled \cup Stuck)

\* What the page asks for is answered or given up, whatever is lost: calls over the
\* socket, and items of the cache over HTTP.
ClientsAnswer == EveryCallReached /\ ItemsArrive
=============================================================================
