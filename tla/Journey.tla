-------------------------------- MODULE Journey --------------------------------
(***************************************************************************)
(* A request from its first message to the advice that is mailed: the      *)
(* event is settled (Resolution), then researched (Advice).  The two share *)
(* the request's state (lib/intake/pipeline.ts, interpret enqueueing       *)
(* research).  A thread about offers of their own keeps that of its        *)
(* request in "talk" (Comparing): interpret asks what it is about first.   *)
(***************************************************************************)
EXTENDS Advice

CONSTANTS
  Scenes, FreshFor, DailyLimit, PageSize, MaxRounds, MaxAsked, Reach, SameTrip,
  Settled,  \* the cases of Advice that a request settled here goes on as
  Talks

ASSUME JourneyAssumption ==
  /\ {FreshFor, DailyLimit, MaxRounds, MaxAsked} \subseteq Nat
  /\ PageSize \in Nat \ {0}
  /\ \A sc \in Scenes : /\ sc.changes \in Nat /\ Len(sc.script) \in Nat
                         /\ sc.route \in {"researching", "referred"}
  /\ Settled \subseteq Cases /\ \A c \in Settled : c.ticks + c.changes = 0
  /\ \A about \in Talks : about.length \in Nat

VARIABLES scene, world, calls, enq, thread, spare, talk

R == INSTANCE Resolution
C == INSTANCE Comparing

finding == <<scene, world, calls, enq, thread, spare>>
allvars == <<advising, finding, talk>>

AboutOffers == talk.state # "none"

\* A thread and what its event comes to, a request whose event is settled already, or a thread
\* about offers of their own.
JourneyInit ==
  /\ Ready
  /\ R!RInit
  /\ talk = C!NoTalk \/ C!TalkInit
  /\ scene.script # <<>> \/ AboutOffers => case \in Settled
  /\ AboutOffers => scene.script = <<>>

AdviceStep ==
  /\ request \notin {"unsettled", "needs_clarification"} /\ ~AboutOffers
  /\ AdviceNext
  /\ UNCHANGED <<finding, talk>>
ResolutionStep ==
  /\ R!RNext
  /\ UNCHANGED <<case, clock, hands, stored, run, draft, mail, changes, expiries, talk>>
ComparingStep == C!Compare /\ UNCHANGED <<advising, finding>>

JourneyNext == AdviceStep \/ ResolutionStep \/ ComparingStep
JourneySpec == JourneyInit /\ [][JourneyNext]_allvars

\* A step that carries the request on can be taken: an interpretation under way, a first
\* message not read, or research.
Busy == ~AboutOffers /\ (R!Interpreting \/ request = "unsettled" \/ Working)

\* As for Advice: jobs are retried until they are done, customers need not answer, and no
\* fairness is given to another customer's search or to the provider's answering.
FairJourney ==
  /\ JourneySpec
  /\ []<>~Busy \/ []<><<R!Receive \/ R!Interpret \/ Research>>_allvars
  /\ WF_allvars(DispatchSend /\ UNCHANGED <<finding, talk>>)

-----------------------------------------------------------------------------
ChoiceInv == R!ChoiceInv
SearchIsHonest == R!SearchIsHonest
SettledKeepsTheRules == R!SettledKeepsTheRules
ComparedInv == C!ComparedInv

\* Whatever they write, they get an answer, a question or a person: a search that fails or is
\* over the day's limit, and a read of research that fails, cost what they would have added
\* and never the reply (interpret, syncFromDiscovery, research).
EnquiryAnswers ==
  ~AboutOffers /\ (R!Interpreting \/ request \in {"unsettled", "researching"})
    ~> ~R!Interpreting /\ request \notin {"unsettled", "researching"}
=============================================================================
