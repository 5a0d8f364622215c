------------------------------- MODULE Recording -------------------------------
(***************************************************************************)
(* The recording strategies, one of them chosen at the start: Sentry,      *)
(* DAgger recording corrections or everything, Highlight and Episodic.     *)
(* The variables of the others are idle: None, and for Sentry, whose       *)
(* properties are those of a run, as its Init has them.                    *)
(***************************************************************************)
EXTENDS SentryRecording

CONSTANTS
  NumEpisodes,                           \* num_episodes (DAgger, Episodic)
  Stride,                                \* interpolation multiplier (DAgger)
  RingFrames, RingBytes, FrameBytes      \* the ring buffer (Highlight)

ASSUME StrategyAssumption ==
  /\ {RingFrames, RingBytes, FrameBytes} \subseteq Nat
  /\ {NumEpisodes, Stride} \subseteq Nat \ {0}

VARIABLES
  strategy,
  phase, pending, tick, human,           \* DAgger
  ring, pushAsked, live, shutdown,       \* Highlight
  exitEarly, rerecord, stop,             \* Episodic
  asked, recorded                        \* of two of them

Dagger(Continuous) == INSTANCE DaggerRecording
Highlight == INSTANCE HighlightRecording
Episodic == INSTANCE EpisodicRecording

ofSentry    == <<tail, poisoned>>
ofDagger    == <<phase, pending, tick, human>>
ofHighlight == <<ring, pushAsked, live, shutdown>>
ofEpisodic  == <<exitEarly, rerecord, stop>>

allVars == <<recorderVars, strategy, ofSentry, ofDagger, ofHighlight, ofEpisodic,
            sincePush, asked, recorded>>

NoSentry    == tail = FALSE /\ poisoned = FALSE
NoDagger    == phase = None /\ pending = None /\ tick = None /\ human = None
NoHighlight == ring = None /\ pushAsked = None /\ live = None /\ shutdown = None
NoEpisodic  == exitEarly = None /\ rerecord = None /\ stop = None

AnyInit ==
  \/ /\ strategy = "sentry" /\ Init
     /\ NoDagger /\ NoHighlight /\ NoEpisodic /\ asked = None /\ recorded = None
  \/ /\ \/ strategy = "corrections" /\ Dagger(FALSE)!Init
        \/ strategy = "everything" /\ Dagger(TRUE)!Init
     /\ NoSentry /\ NoHighlight /\ NoEpisodic
  \/ /\ strategy = "highlight" /\ Highlight!Init
     /\ NoSentry /\ NoDagger /\ NoEpisodic /\ sincePush = None /\ recorded = None
  \/ /\ strategy = "episodic" /\ Episodic!Init
     /\ NoSentry /\ NoDagger /\ NoHighlight /\ sincePush = None /\ asked = None

AnyNext ==
  /\ UNCHANGED strategy
  /\ \/ /\ strategy = "sentry" /\ Next
        /\ UNCHANGED <<ofDagger, ofHighlight, ofEpisodic, asked, recorded>>
     \/ /\ strategy = "corrections" /\ Dagger(FALSE)!Next
        /\ UNCHANGED <<ofSentry, ofHighlight, ofEpisodic>>
     \/ /\ strategy = "everything" /\ Dagger(TRUE)!Next
        /\ UNCHANGED <<ofSentry, ofHighlight, ofEpisodic>>
     \/ /\ strategy = "highlight" /\ Highlight!Next
        /\ UNCHANGED <<ofSentry, ofDagger, ofEpisodic, sincePush, recorded>>
     \/ /\ strategy = "episodic" /\ Episodic!Next
        /\ UNCHANGED <<ofSentry, ofDagger, ofHighlight, sincePush, asked>>

AnySpec == AnyInit /\ [][AnyNext]_allVars
------------------------------------------------------------------------------
(* The properties.  Those of SentryRecording that speak of a dataset that  *)
(* is not poisoned, HubCurrent and PoisonHolds, are asked of all.          *)

DaggerRuns == strategy \in {"corrections", "everything"}

\* As long as no save has failed, the saved episodes and the one under way, read back through
\* the metadata, are the frames recorded and not thrown away, each once and in order.
FramesKept ==
  /\ strategy = "sentry"   => FramesConserved
  /\ DaggerRuns            => Dagger(FALSE)!FramesConserved
  /\ strategy = "episodic" => Episodic!FramesConserved

\* An episode joins no two run segments (Sentry) and no two attempts (Episodic).
TakesApart ==
  /\ strategy = "sentry"   => OneTake
  /\ strategy = "episodic" => Episodic!OneTake

\* DAgger never divides a correction between two episodes, nor joins two when only they are
\* recorded.
CorrectionWhole ==
  /\ strategy = "corrections" => Dagger(FALSE)!CorrectionWhole
  /\ strategy = "everything"  => Dagger(TRUE)!CorrectionWhole

\* Highlight: every episode is one stretch of the rollout, the flushed and the live frames
\* together, and no frame is in two.
Stretches == strategy = "highlight" => Highlight!Stretches

\* No strategy ends with frames in the episode buffer: what was being recorded when the program
\* was stopped is saved behind the loop, unless that save failed.
TailSaved == pc = "down" /\ data.sized => data.buffer = <<>>
=============================================================================
