----------------------------- MODULE ReviewTool -----------------------------
(* The review tool on one pull request (src/tools/review).  A run reads the
   threads it owns, asks the model for each pass, then reconciles: it withdraws,
   acknowledges, posts, resolves and reopens, submits a verdict and rewrites its
   summary comment.  Each is a call to GitHub that may fail, a new push cancels
   the run between any two of them (review.yml), and people answer the threads
   while it works from what it read at its start.  Runs of one pull request do
   not overlap.  A finding stands for its key; wording, lines in the rendered
   summary and the diff itself are left out. *)
EXTENDS Integers, Sequences, FiniteSets, SequencesExt, FiniteSetsExt

CONSTANTS
  Findings,       \* what the model may report
  PassOf,         \* the pass that reports each
  Line,           \* where each is, all in one file
  Rank,           \* 0 is the most severe
  BlockingRank,   \* findings of this rank or below block approval
  Window,         \* lines within which an open thread hides a new finding
  MaxRuns         \* bound on the runs of the tool

ASSUME ReviewAssumption ==
  /\ Line \in [Findings -> Nat]
  /\ Rank \in [Findings -> Nat]
  /\ {BlockingRank, Window, MaxRuns} \subseteq Nat

VARIABLES
  threads,   \* the tool's review threads: key, open, marks left in replies
  waved,     \* the threads a person resolved or replied to, or a run withdrew
  summary,   \* the state marker of the summary comment
  review,    \* the latest formal review on the pull request
  run,       \* the run at work
  runs       \* runs started

reviewVars == <<threads, waved, summary, review, run, runs>>

Passes == {PassOf[f] : f \in Findings}
NoState == [verdict |-> "none", submitted |-> FALSE]
NoRun == [at |-> "idle"]
Phases == <<"withdraw", "acknowledge", "post", "resolve", "reopen", "submit">>

HumanResolved(t) == ~t.open /\ "resolved" \notin t.marks
IsDismissed(t, reported) ==
  "fp" \in t.marks \/ (HumanResolved(t) /\ t.key \in reported)

(* What emit derives from the threads it read and the passes' answers. *)
PriorFindings(seen) ==
  {t \in ToSet(seen) : t.open /\ {"fp", "retracted"} \cap t.marks = {}}

Dedupe(raw) ==
  {f \in raw : ~\E g \in raw : Line[g] = Line[f] /\ Rank[g] < Rank[f]}

ToWithdraw(r) ==
  {i \in DOMAIN r.seen : r.seen[i].key \in r.retracted
                         /\ "retracted" \notin r.seen[i].marks}
KeysAt(r, S) == {r.seen[i].key : i \in S}
DismissedThreads(r) ==
  {i \in DOMAIN r.seen : r.seen[i].key \notin KeysAt(r, ToWithdraw(r))
                         /\ IsDismissed(r.seen[i], r.reported)}
ToAcknowledge(r) ==
  {i \in DismissedThreads(r) : "acked" \notin r.seen[i].marks
                               /\ (r.seen[i].open \/ "fp" \in r.seen[i].marks)}
Excluded(r) ==
  KeysAt(r, ToWithdraw(r) \cup DismissedThreads(r))
  \cup {t.key : t \in {u \in ToSet(r.seen) : "retracted" \in u.marks}}
Live(r) == r.reported \ Excluded(r)

(* planActions: a thread of each key, the last one read. *)
Mine(r) ==
  {i \in DOMAIN r.seen : /\ r.seen[i].key \notin Excluded(r)
                         /\ \A j \in DOMAIN r.seen : j > i => r.seen[j].key # r.seen[i].key}
Nearby(f, g) == LET d == Line[f] - Line[g] IN d <= Window /\ -d <= Window
Unthreaded(r) ==
  {f \in Live(r) :
     /\ \A i \in Mine(r) : r.seen[i].key # f
     /\ \A i \in DOMAIN r.seen :
          r.seen[i].open /\ r.seen[i].key \notin Excluded(r)
            => ~Nearby(f, r.seen[i].key)}
(* Of the new findings close together the first is posted: one of each cluster. *)
ToCreate(r) ==
  {C \in SUBSET Unthreaded(r) :
     /\ \A f, g \in C : f # g => ~Nearby(f, g)
     /\ \A f \in Unthreaded(r) \ C : \E g \in C : Nearby(f, g)}
MutToResolve(r) == {i \in Mine(r) : r.seen[i].open /\ r.seen[i].key \notin Live(r)}
ToResolve(r) ==
  {i \in Mine(r) : /\ r.seen[i].open
                   /\ r.seen[i].key \notin Live(r)
                   /\ PassOf[r.seen[i].key] \notin r.failed}
ToReopen(r) == {i \in Mine(r) : ~r.seen[i].open /\ r.seen[i].key \in Live(r)}

MutVerdict(r) ==
  IF \A f \in Live(r) : Rank[f] > BlockingRank THEN "approve" ELSE "block"
Verdict(r) ==
  IF r.failed = {} /\ \A f \in Live(r) : Rank[f] > BlockingRank
    THEN "approve" ELSE "block"

---------------------------------------------------------------------------
ReviewInit ==
  /\ threads = <<>>
  /\ waved = {}
  /\ summary = NoState
  /\ review = "none"
  /\ run = NoRun
  /\ runs = 0

(* A run starts, on a push or on demand, and reads the threads once; a page
   that fails leaves it with the ones before it. *)
Loads ==
  /\ run = NoRun
  /\ runs < MaxRuns
  /\ \/ run' = [at |-> "passes", seen |-> threads, ok |-> TRUE]
     \/ \E n \in 0..Len(threads) :
          run' = [at |-> "passes", seen |-> SubSeq(threads, 1, n), ok |-> FALSE]
  /\ runs' = runs + 1
  /\ UNCHANGED <<threads, waved, summary, review>>

(* A pass reports findings, and takes back those of its own it was shown; one
   that failed for good answers neither. *)
MayAnswer(raw, back, failed, prior) ==
  /\ back \subseteq {t.key : t \in prior}
  /\ \A f \in raw \cup back : PassOf[f] \notin failed

(* The passes run one after the other, and what they reported is planned. *)
RunsPasses ==
  /\ run.at = "passes"
  /\ \E failed \in SUBSET Passes, raw \in SUBSET Findings, back \in SUBSET Findings :
       LET r == [at |-> "withdraw", seen |-> run.seen, ok |-> run.ok,
                 failed |-> failed, reported |-> Dedupe(raw), retracted |-> back,
                 create |-> {}, left |-> {}]
       IN /\ MayAnswer(raw, back, failed, IF run.ok THEN PriorFindings(run.seen) ELSE {})
          /\ \E create \in ToCreate(r) :
               run' = [r EXCEPT !.create = create, !.left = ToWithdraw(r)]
  /\ UNCHANGED <<threads, waved, summary, review, runs>>

(* The next phase begins once the calls of this one are made.  Without a
   sound read no comment is posted: it might be there already. *)
MutWork(r, phase) ==
  CASE phase = "acknowledge" -> ToAcknowledge(r)
    [] phase = "post" -> r.create
    [] phase = "resolve" -> ToResolve(r)
    [] phase = "reopen" -> ToReopen(r)
    [] OTHER -> {}
Work(r, phase) ==
  CASE phase = "acknowledge" -> ToAcknowledge(r)
    [] phase = "post" -> IF r.ok THEN r.create ELSE {}
    [] phase = "resolve" -> ToResolve(r)
    [] phase = "reopen" -> ToReopen(r)
    [] OTHER -> {}
MovesOn ==
  /\ \E k \in 1..5 :
       /\ run.at = Phases[k]
       /\ run.left = {}
       /\ run' = [run EXCEPT !.at = Phases[k + 1], !.left = Work(run, Phases[k + 1])]
  /\ UNCHANGED <<threads, waved, summary, review, runs>>

(* A reply or a resolution on thread i; either may fail. *)
Replied(i, mark) == [threads EXCEPT ![i].marks = @ \cup {mark}]
Does(phase, x, to) ==
  /\ run.at = phase
  /\ x \in run.left
  /\ run' = [run EXCEPT !.left = @ \ {x}]
  /\ threads' = to
  /\ waved' = IF phase = "withdraw" THEN waved \cup {x} ELSE waved
  /\ UNCHANGED <<summary, review, runs>>

Withdraws ==
  \E i \in DOMAIN threads, replied, done \in BOOLEAN :
    Does("withdraw", i,
         [threads EXCEPT
            ![i].marks = IF replied THEN @ \cup {"retracted"} ELSE @,
            ![i].open = IF done /\ run.seen[i].open THEN FALSE ELSE @])
Acknowledges ==
  \E i \in DOMAIN threads, replied, done \in BOOLEAN :
    Does("acknowledge", i,
         [threads EXCEPT
            ![i].marks = IF replied THEN @ \cup {"acked"} ELSE @,
            ![i].open = IF done /\ run.seen[i].open THEN FALSE ELSE @])
Posts ==
  \E f \in Findings, done \in BOOLEAN :
    Does("post", f,
         IF done THEN Append(threads, [key |-> f, open |-> TRUE, marks |-> {}])
                 ELSE threads)
Resolves ==
  \E i \in DOMAIN threads, replied, done \in BOOLEAN :
    Does("resolve", i,
         [threads EXCEPT
            ![i].open = IF done THEN FALSE ELSE @,
            ![i].marks =
              IF ~replied \/ (~done /\ "noted" \in run.seen[i].marks) THEN @
              ELSE @ \cup {IF done THEN "resolved" ELSE "noted"}])
Reopens ==
  \E i \in DOMAIN threads, done \in BOOLEAN :
    Does("reopen", i, [threads EXCEPT ![i].open = IF done THEN TRUE ELSE @])

(* The verdict goes to GitHub when it changed, or did not go through before,
   as the summary comment remembers; a comment stands in when it fails. *)
PrevState(read) == IF read THEN summary ELSE NoState
Submits ==
  /\ run.at = "submit"
  /\ \E read, done \in BOOLEAN :
       LET prev == PrevState(read)
           due == prev.verdict # Verdict(run) \/ ~prev.submitted
       IN /\ review' = IF due /\ done THEN Verdict(run) ELSE review
          /\ run' = [at |-> "summary", read |-> read, verdict |-> Verdict(run),
                     submitted |-> IF due THEN done ELSE prev.submitted]
  /\ UNCHANGED <<threads, waved, summary, runs>>

(* A summary that could not be read is not replaced: a second one is written
   after it, and later runs read the first. *)
WritesSummary ==
  /\ run.at = "summary"
  /\ \E done \in BOOLEAN :
       summary' = IF done /\ (run.read \/ summary = NoState)
                    THEN [verdict |-> run.verdict, submitted |-> run.submitted]
                    ELSE summary
  /\ run' = NoRun
  /\ UNCHANGED <<threads, waved, review, runs>>

Cancelled ==
  /\ run # NoRun
  /\ run' = NoRun
  /\ UNCHANGED <<threads, waved, summary, review, runs>>

PersonAnswers(i) ==
  /\ \/ threads' = Replied(i, "fp") /\ "fp" \notin threads[i].marks
     \/ threads' = [threads EXCEPT ![i].open = FALSE] /\ threads[i].open
  /\ waved' = waved \cup {i}
  /\ UNCHANGED <<summary, review, run, runs>>

ReviewNext ==
  \/ Loads
  \/ RunsPasses
  \/ MovesOn
  \/ Withdraws \/ Acknowledges \/ Posts \/ Resolves \/ Reopens \/ Submits
  \/ WritesSummary
  \/ Cancelled
  \/ \E i \in DOMAIN threads : PersonAnswers(i)

ToolSpec == ReviewInit /\ [][ReviewNext]_reviewVars

---------------------------------------------------------------------------
(* However calls fail and runs are cut off, a finding has at most one thread:
   a run that could not read every thread posts none. *)
OneThreadPerFinding ==
  \A i, j \in DOMAIN threads : threads[i].key = threads[j].key => i = j

(* A thread a person called a false positive, or the reviewer withdrew, before a
   run read it is not opened again by that run. *)
WavedOffStaysDown ==
  [][\A i \in DOMAIN threads :
       ~threads[i].open /\ threads'[i].open
         => {"fp", "retracted"} \cap run.seen[i].marks = {}]_reviewVars

(* The tool approves only when every pass answered and each blocking finding
   they reported was withdrawn, or is on a thread somebody closed or called a
   false positive. *)
ApprovalEarned ==
  [][review' = "approve" /\ review # "approve" =>
       /\ run.failed = {}
       /\ \A f \in run.reported :
            Rank[f] <= BlockingRank =>
              \/ f \in run.retracted
              \/ \E t \in ToSet(threads) :
                   t.key = f /\ (~t.open \/ {"fp", "retracted"} \cap t.marks # {})]_reviewVars

(* A thread is marked resolved only by a run whose pass finished and no longer
   reported it: the silence of a failed pass is not a fix. *)
SilenceIsNoFix ==
  [][\A i \in DOMAIN threads :
       "resolved" \in threads'[i].marks \ threads[i].marks =>
         PassOf[threads[i].key] \notin run.failed
         /\ threads[i].key \notin run.reported]_reviewVars

(* What github.ts:119-123 says of isDismissed: a reported finding is left out of
   the verdict only when a person replied to its thread or resolved it, or the
   reviewer took it back.  Broken by a resolution whose reply was lost: the
   thread reads as resolved by a person when the finding comes back. *)
OnlyPeopleDismiss ==
  run.at = "submit" =>
    \A f \in run.reported \ Live(run) :
      \E i \in waved : threads[i].key = f

(* What github.ts:650-653 says: a transient failure retries next run instead of
   being masked by an unchanged verdict, so a run that ends holding its verdict
   submitted leaves it on the pull request. *)
VerdictOnRecord ==
  run.at = "summary" /\ run.submitted => review = run.verdict
=============================================================================
