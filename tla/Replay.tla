------------------------------- MODULE Replay -------------------------------
(***************************************************************************)
(* From a measurement to its replay.  parseInput (parameters/main.cpp)     *)
(* feeds the trace to an estimator, once or twice, and writes its tables   *)
(* to files; a router with the elements of elements/, or the generator of  *)
(* tests/, is started on the files and decides the fate of packet after    *)
(* packet.  Between the two, a file can be incomplete.                     *)
(***************************************************************************)
EXTENDS Estimators, Channel, Measure

CONSTANTS
  Traces,     \* traces of earlier measurements
  Heaps       \* what new uint64_t[] may hand out

ASSUME ReplayAssumption ==
  /\ Traces \subseteq Seq(BOOLEAN)
  /\ Heaps \subseteq [0..(2 * state_mod - 1) -> Nat]

VARIABLES
  class,    \* "markovchain", "basiconoff", "basicmta", or "none" before
  heap,     \* the memory the counters of the chain were put in
  pc,       \* "start", "round1", "round2", "finalize", "print", "load",
            \* "idle", "search", "emit": the channel, between packets or in one;
            \* "quit", "refused", "wild": the end
  fed,      \* bits read in this round
  mod,      \* the estimator: of a basicmta, of its parts if it is another class
  tables,   \* what it computed: free, error: distributions; chain
  files,    \* per table: "absent", "cut" or "complete"
  host,     \* who runs the channel: "click" or "tests"
  burst,    \* BasicOnOffChannel: error, free, current_state, remaining
  search,   \* thresholdrand in progress, or the last one
  chain,    \* MarkovChainChannel: state, transitions
  last      \* the last draw of the chain, what it had sent, and the outcome

estimation == <<class, heap, measure>>
channel == <<host, burst, search, chain, last>>
vars == <<estimation, pc, fed, mod, tables, files, channel>>

Class == {"markovchain", "basiconoff", "basicmta"}
Rand == 0..MaxRand
HasBursts == class # "markovchain"
HasChain == class # "basiconoff"

-----------------------------------------------------------------------------
(* parseInput.                                                             *)

addChar(m, input) ==
  CASE class = "markovchain" -> [m EXCEPT !.markov = markov_addChar(@, input)]
    [] class = "basiconoff"  -> [m EXCEPT !.onoff = onoff_addChar(@, input)]
    [] class = "basicmta"    -> mta_addChar(m, input)

\* parseInput is started on the trace, and the log put away.  It reads up to
\* the first character it does not know (and ignores that there is one), and
\* nothing from a file it cannot open: both are traces, too.
ParseInput ==
  /\ pc = "start" /\ phase = "done"
  /\ pc' = "round1"
  /\ class' \in Class /\ heap' \in Heaps
  /\ mod' = mta_init(heap')
  /\ log' = <<>> /\ line' = 0
  /\ train' = 1 /\ count' = 0 /\ left' = 0 /\ sent' = 0 /\ restarts' = 0
  /\ repeated' = FALSE
  /\ UNCHANGED <<phase, trace, fed, tables, files, channel>>

Feed ==
  /\ pc \in {"round1", "round2"}
  /\ fed < Len(trace)
  /\ fed' = fed + 1
  /\ mod' = addChar(mod, trace[fed + 1])
  /\ UNCHANGED <<estimation, pc, tables, files, channel>>

NextRound ==
  /\ pc = "round1" /\ fed = Len(trace)
  /\ class = "basicmta"
  /\ \E threshold \in Thresholds(onoff_flush(mod.onoff)) :
       mod' = mta_nextRound(mod, threshold)
  /\ pc' = "round2" /\ fed' = 0
  /\ UNCHANGED <<estimation, tables, files, channel>>

\* The standard input cannot be read twice.
NeedFile ==
  /\ pc = "round1" /\ fed = Len(trace)
  /\ class = "basicmta"
  /\ pc' = "quit"
  /\ UNCHANGED <<estimation, fed, mod, tables, files, channel>>

LastRound ==
  /\ \/ pc = "round1" /\ class # "basicmta"
     \/ pc = "round2"
  /\ fed = Len(trace)
  /\ pc' = "finalize"
  /\ UNCHANGED <<estimation, fed, mod, tables, files, channel>>

\* The counters when finalize has emptied the buffers.
Finalized(m) ==
  LET emptied == IF class = "basicmta" THEN mta_finalize(m) ELSE m
  IN IF HasBursts THEN [emptied EXCEPT !.onoff = onoff_flush(@)] ELSE emptied

Finalize ==
  /\ pc = "finalize"
  /\ pc' = "print"
  /\ mod' = Finalized(mod)
  /\ tables' = [free |-> calculate_values(mod'.onoff.success_length, mod'.onoff.success_total),
                error |-> calculate_values(mod'.onoff.error_length, mod'.onoff.error_total),
                chain |-> markov_finalize(mod'.markov)]
  /\ UNCHANGED <<estimation, fed, files, channel>>

\* The files, in the order printBinary writes them.
Written == (IF HasBursts THEN <<"free", "error">> ELSE <<>>) \o
           (IF HasChain THEN <<"chain">> ELSE <<>>)

\* WRITE looks for a bad stream; a file that could not be opened makes it
\* only fail, and goes unnoticed.
PrintBinary ==
  /\ pc = "print"
  /\ pc' = "load"
  /\ \E unopened \in SUBSET ToSet(Written) :
       files' = [t \in DOMAIN files |->
         IF t \in ToSet(Written) \ unopened THEN "complete" ELSE "absent"]
  /\ UNCHANGED <<estimation, fed, mod, tables, channel>>

\* A write fails: exit(-1).
PrintFails ==
  /\ pc = "print"
  /\ pc' = "load"
  /\ \E i \in DOMAIN Written :
       files' = [t \in DOMAIN files |->
         CASE \E j \in 1..(i - 1) : Written[j] = t -> "complete"
           [] Written[i] = t -> "cut"
           [] OTHER -> "absent"]
  /\ UNCHANGED <<estimation, fed, mod, tables, channel>>

-----------------------------------------------------------------------------
(* The channel.                                                            *)

Loads(t) == files[t] = "complete"

\* load_cdf_from_file: a file that ends early leaves an empty vector.
Loaded(t) == IF Loads(t) THEN tables[t] ELSE <<>>

\* initialize of BasicOnOffChannel returns load(error) || load(free), which
\* is 1 on failure; that of MarkovChainChannel returns a negative number.
OnOffInitialized == Loads("error") /\ Loads("free")
ChainInitialized == Loads("chain")

\* Mutant of Started: the generator of tests/ starts whatever initialize says.
StartedAnyway(h) == HasChain => ChainInitialized

\* A router refuses an element whose initialize is negative, the generator
\* of tests/ one whose initialize is not 0.
Started(h) ==
  /\ HasChain => ChainInitialized
  /\ HasBursts => OnOffInitialized \/ h = "click"

\* In a router the first burst is of either kind, INITIAL_ERROR_PROB decides;
\* tests/ never sets that field, which new BasicOnOffChannel() has cleared.
Load ==
  /\ pc = "load"
  /\ \E h \in {"click", "tests"}, first \in BOOLEAN :
       /\ h = "tests" => first = FALSE
       /\ host' = h
       /\ pc' = IF Started(h) THEN "idle" ELSE "refused"
       /\ burst' = [error |-> Loaded("error"),
                    free |-> IF Loads("error") THEN Loaded("free") ELSE <<>>,
                    current_state |-> first, remaining |-> 0]
  /\ chain' = [tables.chain EXCEPT !.state = @ % state_mod]
  /\ UNCHANGED <<estimation, fed, mod, tables, files, search, last>>

\* A packet comes to a BasicOnOffChannel in the middle of a burst.
Push ==
  /\ pc = "idle" /\ HasBursts
  /\ burst.remaining > 0
  /\ pc' = "emit"
  /\ UNCHANGED <<estimation, fed, mod, tables, files, channel>>

\* It comes at the end of a burst: thresholdrand.  The first point of an
\* empty vector is not there.
PushDraws ==
  /\ pc = "idle" /\ HasBursts
  /\ burst.remaining <= 0
  /\ burst' = [burst EXCEPT !.current_state = ~@]
  /\ \E rand \in Rand :
       LET dist == IF burst'.current_state THEN burst.free ELSE burst.error IN
       /\ pc' = IF dist = <<>> THEN "wild" ELSE "search"
       /\ search' = IF dist = <<>> THEN search ELSE Search(dist, rand)
  /\ UNCHANGED <<estimation, fed, mod, tables, files, host, chain, last>>

SearchMoves ==
  /\ pc = "search" /\ ~SearchOver(search)
  /\ search' = SearchStep(search)
  /\ UNCHANGED <<estimation, pc, fed, mod, tables, files, host, burst, chain, last>>

SearchEnds ==
  /\ pc = "search" /\ SearchOver(search)
  /\ pc' = "emit"
  /\ burst' = [burst EXCEPT !.remaining = Found(search)]
  /\ UNCHANGED <<estimation, fed, mod, tables, files, host, search, chain, last>>

\* MarkovChainChannel::push.
ChainPush ==
  \E rand \in Rand :
    LET transmit == Transmit(chain, rand)
        recent == IF Len(last.sent) < K THEN last.sent ELSE Tail(last.sent)
    IN /\ chain' = Shifted(chain, transmit, state_mod)
       /\ last' = [before |-> last.sent, rand |-> rand, transmit |-> transmit,
                   sent |-> Append(recent, transmit)]

\* The packet leaves the BasicOnOffChannel: by output 0, or by output 1, which
\* goes to the chain in a basicmta.
Emit ==
  /\ pc = "emit"
  /\ pc' = "idle"
  /\ burst' = [burst EXCEPT !.remaining = @ - 1]
  /\ IF ~burst.current_state /\ HasChain THEN ChainPush ELSE UNCHANGED <<chain, last>>
  /\ UNCHANGED <<estimation, fed, mod, tables, files, host, search>>

\* A packet comes to a MarkovChainChannel that stands alone.
ChainOnly ==
  /\ pc = "idle" /\ ~HasBursts
  /\ ChainPush
  /\ UNCHANGED <<estimation, pc, fed, mod, tables, files, host, burst, search>>

-----------------------------------------------------------------------------

NoSearch == [dist |-> <<>>, rand |-> 0, min |-> 0, max |-> 0, pos |-> 0]
NoChain == [state |-> 0, transitions |-> [i \in 0..(state_mod - 1) |-> 0]]

\* The trace of an earlier measurement.
Recorded ==
  /\ phase = "done"
  /\ trace \in Traces
  /\ train = 1 /\ count = 0 /\ left = 0 /\ sent = 0 /\ restarts = 0 /\ repeated = FALSE
  /\ log = <<>> /\ line = 0

Init ==
  /\ MeasureInit \/ Recorded
  /\ class = "none"
  /\ heap \in Heaps
  /\ pc = "start" /\ fed = 0 /\ mod = mta_init(heap)
  /\ tables = [free |-> <<>>, error |-> <<>>, chain |-> NoChain]
  /\ files = [t \in {"free", "error", "chain"} |-> "absent"]
  /\ host = "none"
  /\ burst = [error |-> <<>>, free |-> <<>>, current_state |-> FALSE, remaining |-> 0]
  /\ search = NoSearch
  /\ chain = NoChain
  /\ last = [before |-> <<>>, rand |-> 0, transmit |-> FALSE, sent |-> <<>>]

Next ==
  \/ MeasureNext /\ UNCHANGED <<class, heap, pc, fed, mod, tables, files, channel>>
  \/ ParseInput
  \/ Feed \/ NextRound \/ NeedFile \/ LastRound \/ Finalize \/ PrintBinary \/ PrintFails
  \/ Load \/ Push \/ PushDraws \/ SearchMoves \/ SearchEnds \/ Emit \/ ChainOnly

\* A packet in a channel is worked on until it leaves it.
Fairness == WF_vars(SearchMoves) /\ WF_vars(SearchEnds) /\ WF_vars(Emit)

Spec == Init /\ [][Next]_vars /\ Fairness

-----------------------------------------------------------------------------
(* What the trace says, without any of the estimators.                     *)

Positions == DOMAIN trace

\* The maximal intervals of a set of positions.
Stretches(S) ==
  {r \in S \X S : r[1] <= r[2] /\ r[1]..r[2] \subseteq S /\ {r[1] - 1, r[2] + 1} \cap S = {}}

Length(r) == r[2] - r[1] + 1
LengthsOf(rs) ==
  [l \in {Length(r) : r \in rs} |-> Cardinality({r \in rs : Length(r) = l})]

\* The error-free bursts: the runs longer than C, 0 for a basiconoff.
FreeBursts == {r \in Stretches({i \in Positions : trace[i]}) : Length(r) > mod.C}
InFree == UNION {r[1]..r[2] : r \in FreeBursts}
ErrorBursts == Stretches(Positions \ InFree)
BurstsOf(kind) == IF kind THEN FreeBursts ELSE ErrorBursts

\* What the chain is an image of: all, or the inside of the error bursts.
Kept == IF class = "markovchain" THEN Positions ELSE Positions \ InFree
Inside == [i \in 1..Cardinality(Kept) |-> trace[Nth(Kept, i)]]

\* How often a bit follows a window.
Follows(window, b) ==
  Cardinality({i \in 1..(Len(Inside) - K) :
                 SubSeq(Inside, i, i + K - 1) = window /\ Inside[i + K] = b})

Window(i) == [j \in 1..K |-> (i \div 2 ^ (K - j)) % 2 = 1]

-----------------------------------------------------------------------------
(* Properties.                                                             *)

Estimated == pc = "print"   \* the counters do not change any more
InChannel == pc \in {"idle", "search", "emit", "wild"}

TypeOK ==
  /\ class \in Class \cup {"none"} /\ heap \in Heaps
  /\ trace \in Seq(BOOLEAN) /\ log \in Seq(Nat)
  /\ fed \in 0..Len(trace)
  /\ host \in {"none", "click", "tests"}
  /\ mod.markov.k \in 0..K /\ mod.markov.state \in 0..(state_mod - 1)
  /\ DOMAIN mod.markov.states = 0..(2 * state_mod - 1)
  /\ {mod.length, mod.length_error, mod.C, mod.onoff.length} \subseteq Nat
  /\ IsABag(mod.onoff.success_length) /\ IsABag(mod.onoff.error_length)
  /\ chain.state \in DOMAIN chain.transitions
  /\ \A i \in DOMAIN chain.transitions : chain.transitions[i] \in Rand
  /\ burst.remaining \in Nat

\* The two tables of bursts are those of the trace: the buffers of the two
\* rounds neither lose nor split nor join a burst.
CountsTrace ==
  Estimated /\ HasBursts /\ trace # <<>> =>
    /\ mod.onoff.success_length = LengthsOf(FreeBursts)
    /\ mod.onoff.error_length = LengthsOf(ErrorBursts)

\* The counters of the chain are those of the windows of the trace, or of
\* the inside of its error bursts, on top of what the memory held.
ChainCountsTrace ==
  Estimated /\ HasChain =>
    \A i \in 0..(state_mod - 1) : \A b \in BOOLEAN :
      mod.markov.states[2 * i + Bit(b)] = heap[2 * i + Bit(b)] + Follows(Window(i), b)

\* From end to end: the length that is drawn is the least length of a burst
\* of the trace at which the cumulative distribution reaches the number.
DrawInverse ==
  pc = "search" /\ SearchOver(search) /\ trace # <<>> =>
    LET bursts == BurstsOf(burst.current_state)
        reached == {l \in {Length(r) : r \in bursts} :
                      search.rand * Cardinality(bursts) <=
                        MaxRand * Cardinality({r \in bursts : Length(r) <= l})}
    IN Found(search) = Min(reached)

\* From end to end: once the chain has sent K packets, it repeats the
\* frequencies of the trace, provided its counters began at zero.
ChainReplays ==
  InChannel /\ Len(last.before) = K /\ (\A i \in DOMAIN heap : heap[i] = 0) =>
    LET good == Follows(last.before, TRUE)
        all == good + Follows(last.before, FALSE)
    IN last.transmit <=> all # 0 /\ (last.rand + 1) * all <= MaxRand * good

\* A channel without a distribution is due to a trace without a burst of that
\* kind, or to a router that was started on an incomplete file; the
\* generator of tests/ notices the file.
WildHasCause ==
  pc = "wild" =>
    \/ BurstsOf(burst.current_state) = {}
    \/ host = "click" /\ ~OnOffInitialized

\* A packet leaves the channel, if the trace has bursts of two lengths (of the
\* kind that is drawn).
PacketLeaves ==
  (pc = "search" /\ \E r, s \in BurstsOf(burst.current_state) : Length(r) # Length(s))
    ~> pc = "idle"

=============================================================================
