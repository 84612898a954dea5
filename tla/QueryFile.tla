------------------------------ MODULE QueryFile ------------------------------
(***************************************************************************)
(* File queries: a plugin asks ReChecker to compare a file of every client *)
(* with the server's, and gets each client's answer in a callback          *)
(* (mods/queryfile_handler.cpp, natives/natives_rechecker.cpp).            *)
(*                                                                         *)
(* A query has two names, the forward of AMX Mod X that calls the plugin   *)
(* and an id by which ReChecker knows it.  The loop that looks for the     *)
(* query of an answer runs plugin code, which may unregister any query,    *)
(* this one included, and register new ones, all under the loop.           *)
(***************************************************************************)
EXTENDS Naturals, Sequences, FiniteSets

CONSTANTS
    QueryAddr,      \* bound of the model: addresses of CQueryFileHandler objects
    QueryForward,   \* bound of the model: forwards AMX Mod X can hand out
    QueryId         \* bound of the model: ids that MAKE_REQUESTID hands out, in turn

ASSUME QueryAssumption ==
    QueryForward \subseteq Nat \ {0} /\ QueryId = 1 .. Cardinality(QueryId)

VARIABLES
    queries,        \* m_hooklist: the addresses of the queries, in order
    handler,        \* handler[a]: the query at an address, or free memory
    forwardOf,      \* AMX Mod X: the id of the query a forward is for, or FREE
    issued,         \* ids that MAKE_REQUESTID has handed out
    asked,          \* ReChecker's queries
    answer,         \* FireCallback: the answer being delivered, or no answer
    delivered       \* history: whether a callback has got that answer

queryVars == <<queries, handler, forwardOf, issued, asked, answer, delivered>>

FreeMemory == [amx |-> 0, uid |-> 0]
FreeForward == 0
NoAnswer == [uid |-> 0, pos |-> 0, rest |-> <<>>, running |-> FALSE, stale |-> FALSE]

Answering == answer.uid # 0
InQueryCallback == Answering /\ answer.running

\* Plugin code is executing: a query's callback, or any other.
QueryNatives == Answering => answer.running

-----------------------------------------------------------------------------
(* The list of queries *)

WithoutEntry(s, i) == SubSeq(s, 1, i - 1) \o SubSeq(s, i + 1, Len(s))

\* What the loop has yet to read once the vector holds v in the same memory;
\* the memory behind the vector's end keeps what it had.
ReadAfter(v) ==
    [j \in DOMAIN answer.rest |->
        LET k == answer.pos + j - 1
        IN  IF k <= Len(v) THEN v[k] ELSE answer.rest[j]]

\* RegisterQueryFile adds a query once it has found the file name not to be
\* empty and the plugin's function to exist; otherwise it does nothing, while a
\* bad type of request is only logged.  The vector
\* may have to grow; it cannot while there is room behind it that the loop
\* still reads.
RegisterQueryFile(a, f, id, grows) ==
    /\ QueryNatives
    /\ handler[a] = FreeMemory /\ forwardOf[f] = FreeForward
    /\ id = Cardinality(issued) + 1
    /\ grows /\ Answering => answer.pos + Len(answer.rest) - 1 <= Len(queries)
    /\ forwardOf' = [forwardOf EXCEPT ![f] = id]
    /\ issued' = issued \cup {id}
    /\ handler' = [handler EXCEPT ![a] = [amx |-> f, uid |-> id]]
    /\ queries' = Append(queries, a)
    /\ asked' = asked \cup {id}
    /\ answer' = IF ~Answering \/ answer.stale THEN answer
                 ELSE IF grows THEN [answer EXCEPT !.stale = TRUE]
                 ELSE [answer EXCEPT !.rest = ReadAfter(Append(queries, a))]
    /\ UNCHANGED delivered

\* ~CQueryFileHandler, of the queries at the addresses A.
DestroyKeepsAsking(A) ==                    \* a mutant: ReChecker is not told
    /\ forwardOf' = [f \in QueryForward |->
                       IF \E a \in A : handler[a].amx = f THEN FreeForward
                                                          ELSE forwardOf[f]]
    /\ handler' = [a \in QueryAddr |-> IF a \in A THEN FreeMemory ELSE handler[a]]
    /\ UNCHANGED asked

Destroy(A) ==
    /\ forwardOf' = [f \in QueryForward |->
                       IF \E a \in A : handler[a].amx = f THEN FreeForward
                                                          ELSE forwardOf[f]]
    /\ handler' = [a \in QueryAddr |-> IF a \in A THEN FreeMemory ELSE handler[a]]
    /\ asked' = asked \ {handler[a].uid : a \in A}

\* UnRegisterQueryFile removes the first query that has this forward; a plugin
\* may give the id of any forward, of its own queries or not.
UnRegisterQueryFile(f) ==
    /\ QueryNatives
    /\ \E i \in DOMAIN queries :
          /\ handler[queries[i]].amx = f
          /\ \A j \in 1 .. (i - 1) : handler[queries[j]].amx # f
          /\ Destroy({queries[i]})
          /\ queries' = WithoutEntry(queries, i)
          /\ answer' = IF ~Answering \/ answer.stale THEN answer
                       ELSE [answer EXCEPT !.rest = ReadAfter(WithoutEntry(queries, i))]
    /\ UNCHANGED <<issued, delivered>>

\* Clear, at the end of the map and at detach; no answer is being delivered.
ClearQueries ==
    /\ ~Answering
    /\ Destroy({queries[i] : i \in DOMAIN queries})
    /\ queries' = <<>>
    /\ UNCHANGED <<issued, answer, delivered>>

-----------------------------------------------------------------------------
(* FireCallback *)

\* The loop is between two queries.
ReadsOn == Answering /\ ~answer.running
AtEndOfQueries == answer.rest = <<>>
AtQuery == Head(answer.rest)
NextQuery(ans) == [ans EXCEPT !.pos = @ + 1, !.rest = Tail(@), !.running = FALSE]

\* ReChecker has a client's answer, to a query that is there or, if it came
\* late, that has been there.
FireCallback(id) ==
    /\ ~Answering
    /\ id \in issued
    /\ answer' = [uid |-> id, pos |-> 1, rest |-> queries,
                  running |-> FALSE, stale |-> FALSE]
    /\ delivered' = FALSE
    /\ UNCHANGED <<queries, handler, forwardOf, issued, asked>>

MatchesByForward(a) == handler[a].amx = answer.uid  \* a mutant: the other id
IsAsked(a) == handler[a].uid = answer.uid

PassOtherQuery ==
    /\ ReadsOn /\ ~AtEndOfQueries
    /\ ~IsAsked(AtQuery)
    /\ answer' = NextQuery(answer)
    /\ UNCHANGED <<queries, handler, forwardOf, issued, asked, delivered>>

\* ExecuteForward, of the forward that the query at hand has.
RunQueryCallback ==
    /\ ReadsOn /\ ~AtEndOfQueries
    /\ IsAsked(AtQuery)
    /\ answer' = [answer EXCEPT !.running = TRUE]
    /\ delivered' = TRUE
    /\ UNCHANGED <<queries, handler, forwardOf, issued, asked>>

QueryCallbackReturns ==
    /\ InQueryCallback
    /\ answer' = NextQuery(answer)
    /\ UNCHANGED <<queries, handler, forwardOf, issued, asked, delivered>>

AnswerDelivered ==
    /\ ReadsOn /\ AtEndOfQueries
    /\ answer' = NoAnswer
    /\ delivered' = FALSE
    /\ UNCHANGED <<queries, handler, forwardOf, issued, asked>>

-----------------------------------------------------------------------------

QueryInit ==
    /\ queries = <<>>
    /\ handler = [a \in QueryAddr |-> FreeMemory]
    /\ forwardOf = [f \in QueryForward |-> FreeForward]
    /\ issued = {}
    /\ asked = {}
    /\ answer = NoAnswer
    /\ delivered = FALSE

\* Reading the freed memory of a vector that has moved, or of a query that has
\* been deleted, is undefined: the loop finds the old contents, or others that
\* are not the id of the answer, and goes on (PassOtherQuery), or the process
\* dies and the server starts afresh.
QueryCrash ==
    /\ ReadsOn /\ ~AtEndOfQueries
    /\ answer.stale \/ handler[AtQuery] = FreeMemory
    /\ queries' = <<>>
    /\ handler' = [a \in QueryAddr |-> FreeMemory]
    /\ forwardOf' = [f \in QueryForward |-> FreeForward]
    /\ issued' = {}
    /\ asked' = {}
    /\ answer' = NoAnswer
    /\ delivered' = FALSE

QueryLoop ==
    \/ PassOtherQuery
    \/ RunQueryCallback
    \/ AnswerDelivered

\* All but Clear, which the life cycle of the map calls, and the crash.
QueryStep ==
    \/ \E a \in QueryAddr, f \in QueryForward, id \in QueryId, g \in BOOLEAN :
          RegisterQueryFile(a, f, id, g)
    \/ \E f \in QueryForward : UnRegisterQueryFile(f)
    \/ \E id \in QueryId : FireCallback(id)
    \/ QueryCallbackReturns
    \/ QueryLoop

-----------------------------------------------------------------------------
(* Properties *)

QueryTypeOK ==
    /\ queries \in Seq(QueryAddr)
    /\ handler \in [QueryAddr -> [amx : QueryForward \cup {0}, uid : QueryId \cup {0}]]
    /\ forwardOf \in [QueryForward -> QueryId \cup {FreeForward}]
    /\ asked \subseteq issued /\ issued \subseteq QueryId
    /\ answer \in [uid : QueryId \cup {0}, pos : Nat, rest : Seq(QueryAddr),
                   running : BOOLEAN, stale : BOOLEAN]
    /\ delivered \in BOOLEAN

ListedQueries == {queries[i] : i \in DOMAIN queries}

\* Three records of the queries agree whenever plugin code or the engine runs,
\* whatever a callback unregistered under the loop: the list, the forwards that
\* AMX Mod X holds for it and the queries that ReChecker asks the clients.  No
\* query is listed twice, asked without being listed or left without a forward
\* (Add, Remove, Clear).
QueriesAgree ==
    /\ Cardinality(ListedQueries) = Len(queries)
    /\ ListedQueries = {a \in QueryAddr : handler[a] # FreeMemory}
    /\ asked = {handler[a].uid : a \in ListedQueries}
    /\ \A f \in QueryForward, id \in QueryId : forwardOf[f] = id <=>
          \E a \in ListedQueries : handler[a] = [amx |-> f, uid |-> id]

\* An answer runs the callback of the query it answers and no other plugin's,
\* at most once, whatever that callback unregisters and registers under the
\* loop; and it is not dropped: when the loop is over a query that is still
\* asked has got it (FireCallback, Remove).
AnswersReachTheirQuery ==
    [][ /\ ~InQueryCallback /\ InQueryCallback' =>
             /\ ~delivered
             /\ forwardOf[handler[AtQuery].amx] = answer.uid
        /\ Answering /\ ~Answering' /\ answer.uid \in asked' => delivered ]_queryVars
=============================================================================
