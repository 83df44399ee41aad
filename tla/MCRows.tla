------------------------------- MODULE MCRows -------------------------------
(***************************************************************************)
(* The ways of rows through the worker: a statement rewritten into scans   *)
(* of a date range, a statement planned and executed in stages on several  *)
(* workers, the connections over which those are called, and the three     *)
(* places where a task feeds a bounded channel that somebody else reads,   *)
(* the streaming pipeline, the query engine and the source clients.  They  *)
(* share no state, so a behaviour is one of one of them while the others   *)
(* rest.                                                                   *)
(***************************************************************************)
EXTENDS MCPlanning, MCRewrite, Pipeline, QueryStream, SourceStream, MCPool

streamVars == <<pipeVars, queryVars, sourceVars, poolVars>>
allVars == <<vars, rewriteVars, streamVars>>

NothingAsked == [q |-> NoExpr, params |-> NoParams, entry |-> "none"]
RewriteRests ==
    /\ asked = NothingAsked /\ stage = "rest"
    /\ rewritten = NoExpr /\ answered = {}

PlannerRests ==
    /\ case = (CHOOSE c \in Cases : TRUE) /\ mode = "local"
    /\ step = "rest" /\ plan = Rejected /\ next = 1 /\ outs = <<>> /\ answer = Bad

(* Two scans joined, and the result aggregated by the root. *)
Readers == <<3, 3, 4, 5>>

PipelineOver ==
    /\ task = [s \in Stages |-> "done"] /\ fwd = [s \in Stages |-> "ok"]
    /\ left = [s \in Stages |-> <<>>] /\ stream = [s \in Stages |-> <<>>]
    /\ made = [s \in Stages |-> 1] /\ got = made
    /\ todo = [s \in Stages |-> 0] /\ chan = todo
    /\ collector = "done" /\ awaiting = N + 1 /\ outcome = "ok"

QueriesOver ==
    /\ blocking = [q \in Queries |-> "ok"] /\ client = [q \in Queries |-> "gone"]
    /\ supervisor = [q \in Queries |-> "done"] /\ results = [q \in Queries |-> <<>>]
    /\ conn = [q \in Queries |-> NoConn] /\ handle = conn
    /\ total = [q \in Queries |-> 0] /\ sent = total /\ gaveUp = [q \in Queries |-> FALSE]

SourcesOver ==
    /\ reads = [l \in Loads |-> "ok"] /\ loader = [l \in Loads |-> "ended"]
    /\ rows = [l \in Loads |-> 0] /\ fetched = rows /\ builder = rows /\ received = rows
    /\ queue = [l \in Loads |-> <<>>] /\ active = 0 /\ closing = TRUE /\ shutdown = "returned"

CallsOver ==
    /\ calls = 0 /\ poolPc = [c \in Callers |-> "idle"]
    /\ target = [c \in Callers |-> CHOOSE w \in Peers : TRUE]
    /\ lockq = [w \in Peers |-> <<>>] /\ live = {} /\ expired = {}
    /\ unseen = [c \in Callers |-> {}] /\ seen = unseen

StreamsOver == PipelineOver /\ QueriesOver /\ SourcesOver /\ CallsOver

RowsInit ==
    \/ Init /\ RewriteRests /\ StreamsOver
    \/ PlannerRests /\ RewriteInit /\ StreamsOver
    \/ /\ PlannerRests /\ RewriteRests
       /\ \/ PipelineInit /\ QueriesOver /\ SourcesOver /\ CallsOver
          \/ PipelineOver /\ QueryInit /\ SourcesOver /\ CallsOver
          \/ PipelineOver /\ QueriesOver /\ SourceInit /\ CallsOver
          \/ PipelineOver /\ QueriesOver /\ SourcesOver /\ PoolInit

RowsNext ==
    \/ Next /\ UNCHANGED <<rewriteVars, streamVars>>
    \/ RewriteNext /\ UNCHANGED <<vars, streamVars>>
    \/ PipelineNext /\ UNCHANGED <<vars, rewriteVars, queryVars, sourceVars, poolVars>>
    \/ QueryNext /\ UNCHANGED <<vars, rewriteVars, pipeVars, sourceVars, poolVars>>
    \/ SourceNext /\ UNCHANGED <<vars, rewriteVars, pipeVars, queryVars, poolVars>>
    \/ PoolNext /\ UNCHANGED <<vars, rewriteVars, pipeVars, queryVars, sourceVars>>

RowsSpec ==
    /\ RowsInit /\ [][RowsNext]_allVars
    /\ PipelineFairness /\ QueryFairness /\ SourceFairness /\ PoolFairness
=============================================================================
