----------------------------- MODULE ServiceProofs -----------------------------
(***************************************************************************)
(* What the extension hears of the daemon, for any number of casts and of  *)
(* messages under way and any idle time: types, the reasons it is given,   *)
(* the casts the idle exit leaves alone and where the menu settles; and of *)
(* the device list, for any addresses and details: what is listed, at      *)
(* which address, and where the menu settles.                              *)
(***************************************************************************)
EXTENDS Service, Discovery, FunctionTheorems, FiniteSetTheorems, TLAPS

-----------------------------------------------------------------------------
(* The invariant.                                                          *)

Number == 0 .. MaxCasts

(* The calls and the messages there can be. *)
Call == [call : {"GetStatus", "StartCast", "GetLastEvent"},
         why : {"", "error", "ended"}, about : Number]

State == [is : {"signal", "status"}, of : Status, stale : BOOLEAN]
Answer == [is : {"reason"}, of : Reason, why : {"", "error", "ended"}, about : Number]
Item == State \cup Answer \cup {DaemonGone}

(* They are about casts that were accepted, and no reason is an old one. *)
KnownCall == {c \in Call : c.about <= accepted}

TrueItem ==
    {r \in Item :
        /\ r.is \in {"signal", "status"} => r.of.cast <= accepted
        /\ r.is = "reason" =>
             /\ r.about <= accepted
             /\ r.of.cast # NoCast /\ r.about # NoCast => r.of.cast >= earliest[r.about]}

Typed ==
    /\ status \in Status /\ menu \in Status /\ lastEvent \in Reason
    /\ events \in Nat
    /\ accepted \in Number
    /\ session \in [cast : Number, at : {Over, "setup", "playing", "failed", "done"}]
    /\ leaving \in {"waiting", "quiet", "decided"}
    /\ earliest \in [Cast -> Cast]

Flags ==
    /\ up \in BOOLEAN /\ subscribed \in BOOLEAN /\ late \in BOOLEAN /\ behind \in BOOLEAN

Counters ==
    /\ idleFor \in 0 .. IdleExit + 1
    /\ opens \in 0 .. MaxOpens

Numbers ==
    /\ session.cast <= accepted /\ status.cast <= accepted /\ menu.cast <= accepted
    /\ session.at # Over => session.cast # NoCast
    /\ StartCast \in calls => accepted < MaxCasts

Way ==
    /\ calls \subseteq KnownCall /\ IsFiniteSet(calls)
    /\ answers \subseteq TrueItem /\ IsFiniteSet(answers)
    /\ \A a \in answers : a.is \in {"status", "reason"}
    /\ wire \in Seq(TrueItem)

(* What was accepted found a cast that was not over, or found none; and the  *)
(* last reason is of a cast that none of them found over.                    *)
Dated ==
    /\ \A c \in Cast : c <= accepted => earliest[c] <= FirstNotOver
    /\ lastEvent.cast # NoCast =>
         \A c \in Cast : c <= accepted => earliest[c] <= lastEvent.cast

(* A cast under way shows, one that waits has just been accepted, and what   *)
(* the idle exit has looked at is still so.                                  *)
Exit ==
    /\ session.at # Over => status.state \in {"connecting", "casting"}
    /\ session.at = Over /\ session.cast < accepted => idleFor = 0
    /\ leaving = "quiet" /\ FirstNotOver <= accepted => idleFor = 0
    /\ leaving = "decided" /\ FirstNotOver <= accepted => late

Inv == Typed /\ Flags /\ Counters /\ Numbers /\ Way /\ Dated /\ Exit

-----------------------------------------------------------------------------
(* Finite sets and messages.                                               *)

LEMMA OvertakenFinite ==
  ASSUME NEW S, IsFiniteSet(S)
  PROVE  IsFiniteSet({Overtaken(a) : a \in S})
  <1> DEFINE T == {Overtaken(a) : a \in S}
             f == [a \in S |-> Overtaken(a)]
  <1>1. f \in Surjection(S, T)
    BY DEF Surjection
  <1> QED
    BY <1>1, FS_Surjection

LEMMA UnansweredFinite ==
  ASSUME IsFiniteSet(calls), IsFiniteSet(answers)
  PROVE  IsFiniteSet(Unanswered)
  <1> DEFINE C == {c \in calls : c.call # "StartCast"}
             R == {NoReply(c) : c \in C}
             Emptied(a) == IF a.is = "status" THEN StatusReply(Idle)
                           ELSE [a EXCEPT !.of = NoReason]
             E == {Emptied(a) : a \in answers}
             f == [c \in C |-> NoReply(c)]
             g == [a \in answers |-> Emptied(a)]
  <1>1. IsFiniteSet(C)
    BY FS_Subset
  <1>2. f \in Surjection(C, R) /\ g \in Surjection(answers, E)
    BY DEF Surjection
  <1>3. IsFiniteSet(R) /\ IsFiniteSet(E)
    BY <1>1, <1>2, FS_Surjection
  <1>4. Unanswered = R \cup E
    BY DEF Unanswered
  <1> HIDE DEF R, E
  <1> QED
    BY <1>3, <1>4, FS_Union

LEMMA AllInOrder ==
  ASSUME NEW T, NEW S \in SUBSET T, IsFiniteSet(S)
  PROVE  SetToSeq(S) \in Seq(T)
  <1> DEFINE n == Cardinality(S)
  <1>1. n \in Nat /\ ExistsBijection(1 .. n, S)
    BY FS_CardinalityType
  <1>2. \E f \in [1 .. n -> S] : IsInjective(f)
    BY <1>1 DEF ExistsBijection, Bijection, Injection
  <1>3. SetToSeq(S) \in [1 .. n -> S]
    BY <1>2 DEF SetToSeq
  <1> QED
    BY <1>1, <1>3

LEMMA Kinds ==
  ASSUME NEW r \in Item
  PROVE  /\ r.is \in {"signal", "status", "reason", "gone"}
         /\ r.is \in {"signal", "status"} => r \in State
         /\ r.is = "reason" => r \in Answer
  <1>1. ASSUME r \in State PROVE r.is \in {"signal", "status"}
    BY <1>1 DEF State
  <1>2. ASSUME r \in Answer PROVE r.is = "reason"
    BY <1>2 DEF Answer
  <1>3. DaemonGone.is = "gone"
    BY DEF DaemonGone
  <1> QED
    BY <1>1, <1>2, <1>3 DEF Item

(* The messages the daemon and the bus write. *)
LEMMA Writes ==
  ASSUME Typed
  PROVE  /\ DaemonGone \in TrueItem
         /\ \A s \in Status : s.cast <= accepted =>
              Signal(s) \in TrueItem /\ StatusReply(s) \in TrueItem
         /\ \A c \in KnownCall : ReasonReply(NoReason, c) \in TrueItem
         /\ StatusReply(Idle) \in TrueItem
  <1>1. 0 \in Number /\ accepted \in Number
    BY BoundAssumption DEF Typed, Number
  <1>2. ASSUME NEW s \in Status, s.cast <= accepted
        PROVE  Signal(s) \in TrueItem /\ StatusReply(s) \in TrueItem
    <2>1. Signal(s) \in State /\ StatusReply(s) \in State
      BY DEF Signal, StatusReply, State
    <2>2. Signal(s).of = s /\ StatusReply(s).of = s
            /\ Signal(s).is = "signal" /\ StatusReply(s).is = "status"
      BY DEF Signal, StatusReply
    <2> QED
      BY <1>2, <2>1, <2>2 DEF TrueItem, Item
  <1>3. Idle \in Status /\ Idle.cast <= accepted
    BY <1>1 DEF Idle, Status, NoCast, Number
  <1>4. ASSUME NEW c \in KnownCall
        PROVE  ReasonReply(NoReason, c) \in TrueItem
    <2>1. NoReason \in Reason /\ NoReason.cast = NoCast
      BY <1>1 DEF NoReason, Reason, NoCast, Number
    <2>2. c.why \in {"", "error", "ended"} /\ c.about \in Number /\ c.about <= accepted
      BY DEF KnownCall, Call
    <2>3. ReasonReply(NoReason, c) \in Answer
      BY <2>1, <2>2 DEF ReasonReply, Answer
    <2> QED
      BY <2>1, <2>2, <2>3 DEF ReasonReply, TrueItem, Item
  <1>5. DaemonGone \in TrueItem
    BY DEF DaemonGone, TrueItem, Item
  <1> QED
    BY <1>2, <1>3, <1>4, <1>5

LEMMA Asks ==
  ASSUME Typed
  PROVE  /\ GetStatus \in KnownCall
         /\ StartCast \in KnownCall
         /\ \A w \in {"", "error", "ended"}, a \in Number :
              a <= accepted => GetLastEvent(w, a) \in KnownCall
  <1>1. 0 \in Number /\ accepted \in Number /\ 0 <= accepted
    BY BoundAssumption DEF Typed, Number
  <1>2. GetStatus \in KnownCall
    <2>1. GetStatus \in Call /\ GetStatus.about = 0
      BY <1>1 DEF GetStatus, Call, NoCast
    <2> QED
      BY <1>1, <2>1 DEF KnownCall
  <1>3. StartCast \in KnownCall
    <2>1. StartCast \in Call /\ StartCast.about = 0
      BY <1>1 DEF StartCast, Call, NoCast
    <2> QED
      BY <1>1, <2>1 DEF KnownCall
  <1>4. ASSUME NEW w \in {"", "error", "ended"}, NEW a \in Number, a <= accepted
        PROVE  GetLastEvent(w, a) \in KnownCall
    <2>1. GetLastEvent(w, a) \in Call /\ GetLastEvent(w, a).about = a
      BY DEF GetLastEvent, Call
    <2> QED
      BY <1>4, <2>1 DEF KnownCall
  <1> QED
    BY <1>2, <1>3, <1>4

(* What the bus says of the calls nobody answers. *)
LEMMA UnansweredTrue ==
  ASSUME Typed, Way
  PROVE  Unanswered \subseteq TrueItem
  <1>1. ASSUME NEW c \in calls PROVE NoReply(c) \in TrueItem
    BY Writes DEF Way, NoReply
  <1>2. ASSUME NEW a \in answers, a.is # "status"
        PROVE  [a EXCEPT !.of = NoReason] \in TrueItem
    <2>1. a \in TrueItem /\ a.is = "reason" /\ a \in Item
      BY <1>2 DEF Way, TrueItem
    <2>2. a \in Answer /\ a.about <= accepted
      BY <2>1, Kinds DEF TrueItem
    <2>3. NoReason \in Reason /\ NoReason.cast = NoCast
      BY BoundAssumption DEF NoReason, Reason, NoCast
    <2>4. /\ [a EXCEPT !.of = NoReason] \in Answer
          /\ [a EXCEPT !.of = NoReason].is = "reason"
          /\ [a EXCEPT !.of = NoReason].of = NoReason
          /\ [a EXCEPT !.of = NoReason].about = a.about
      BY <2>1, <2>2, <2>3 DEF Answer
    <2> QED
      BY <2>2, <2>3, <2>4 DEF TrueItem, Item
  <1>3. StatusReply(Idle) \in TrueItem
    BY Writes
  <1> QED
    BY <1>1, <1>2, <1>3 DEF Unanswered

-----------------------------------------------------------------------------
(* The invariant is kept.                                                  *)

LEMMA InitInv == Init => Inv
  <1> SUFFICES ASSUME Init PROVE Inv
    OBVIOUS
  <1>1. /\ accepted \in {0, 1} /\ session.cast = accepted /\ up \in BOOLEAN
        /\ session = [cast |-> accepted, at |-> IF accepted = 0 THEN Over ELSE "playing"]
        /\ status = IF accepted = 0 THEN Idle ELSE [state |-> "casting", cast |-> 1]
        /\ lastEvent = NoReason /\ events = 0 /\ idleFor = 0 /\ leaving = "waiting"
        /\ calls \in {{}, {GetStatus}} /\ answers = {} /\ wire = <<>> /\ subscribed = FALSE
        /\ menu = Idle /\ opens = 0 /\ earliest = [c \in Cast |-> c]
        /\ late = FALSE /\ behind = FALSE
    BY DEF Init
  <1>2. {0, 1} \subseteq Number
    BY BoundAssumption DEF Number
  <1>3. Idle \in Status /\ NoReason \in Reason /\ Idle.cast = 0 /\ NoReason.cast = 0
    BY BoundAssumption DEF Idle, Status, NoReason, Reason, NoCast
  <1>4. Typed
    <2>1. [state |-> "casting", cast |-> 1] \in Status
      BY BoundAssumption DEF Status
    <2>2. status \in Status
      BY <1>1, <1>3, <2>1
    <2>3. session \in [cast : Number, at : {Over, "setup", "playing", "failed", "done"}]
      BY <1>1, <1>2 DEF Over
    <2>4. earliest \in [Cast -> Cast]
      BY <1>1
    <2> QED
      BY <1>1, <1>2, <1>3, <2>2, <2>3, <2>4 DEF Typed
  <1>5. Flags /\ Counters
    <2>1. Flags
      BY <1>1 DEF Flags
    <2>2. 0 \in 0 .. IdleExit + 1 /\ 0 \in 0 .. MaxOpens
      BY BoundAssumption
    <2> QED
      BY <1>1, <2>1, <2>2 DEF Counters
  <1>6. Numbers
    <2>1. status.cast = accepted
      BY <1>1, <1>3
    <2>2. StartCast \notin calls
      <3>1. StartCast.call = "StartCast" /\ GetStatus.call = "GetStatus"
        BY DEF StartCast, GetStatus
      <3> QED
        BY <1>1, <3>1
    <2>3. session.at # Over => session.cast # NoCast
      BY <1>1 DEF NoCast
    <2> QED
      BY <1>1, <1>3, <2>1, <2>2, <2>3 DEF Numbers
  <1>7. Way
    <2>1. calls \subseteq KnownCall
      BY <1>1, <1>4, Asks
    <2>2. IsFiniteSet(calls) /\ IsFiniteSet(answers)
      <3>1. IsFiniteSet({}) /\ IsFiniteSet({GetStatus})
        BY FS_EmptySet, FS_Singleton
      <3> QED
        BY <1>1, <3>1
    <2>3. wire \in Seq(TrueItem)
      BY <1>1
    <2> QED
      BY <1>1, <2>1, <2>2, <2>3 DEF Way
  <1>8. Dated
    <2>1. ASSUME NEW c \in Cast, c <= accepted PROVE earliest[c] <= FirstNotOver
      <3>1. c = 1 /\ accepted = 1 /\ earliest[c] = 1
        BY <1>1, <2>1 DEF Cast
      <3> QED
        BY <1>1, <3>1 DEF FirstNotOver, Over
    <2> QED
      BY <1>1, <1>3, <2>1 DEF Dated, NoCast
  <1>9. Exit
    BY <1>1 DEF Exit, Over
  <1> QED
    BY <1>4, <1>5, <1>6, <1>7, <1>8, <1>9 DEF Inv

(* Nothing but what is true may be said as long as no cast is accepted. *)
LEMMA WayUnchanged ==
  ASSUME Way, UNCHANGED <<accepted, earliest, calls, answers, wire>>
  PROVE  Way'
  BY DEF Way, KnownCall, TrueItem

LEMMA SessionInv == Inv /\ SessionStep => Inv'
  <1> SUFFICES ASSUME Inv, SessionStep PROVE Inv'
    OBVIOUS
  <1>t. Typed /\ Numbers /\ Dated /\ Exit
    BY DEF Inv
  <1>1. /\ UNCHANGED <<up, accepted, earliest, leaving, late, calls, answers, wire,
                       menu, subscribed, opens, behind>>
        /\ \/ Begins \/ Plays \/ (\E kind \in {"", "error", "ended"} : Ends(kind)) \/ Reports
    BY DEF SessionStep, Begins, Plays, Ends, Reports, busVars, menuVars
  (* What a step makes of the session, the status and the end reason. *)
  <1>2. \/ /\ session.at = Over /\ session.cast < accepted
           /\ session' = [cast |-> session.cast + 1, at |-> "setup"]
           /\ status' = [state |-> "connecting", cast |-> session.cast + 1]
           /\ events' = events + 1 /\ idleFor' = 0 /\ UNCHANGED lastEvent
        \/ /\ session.at = "setup" /\ session' = [session EXCEPT !.at = "playing"]
           /\ status' = [state |-> "casting", cast |-> session.cast]
           /\ events' = events + 1 /\ idleFor' = 0 /\ UNCHANGED lastEvent
        \/ /\ session.at \in {"setup", "playing"}
           /\ \/ session' = [session EXCEPT !.at = "failed"]
              \/ session' = [session EXCEPT !.at = "done"]
           /\ \/ UNCHANGED lastEvent
              \/ lastEvent' = [kind |-> "error", cast |-> session.cast]
              \/ lastEvent' = [kind |-> "ended", cast |-> session.cast]
           /\ UNCHANGED <<status, events, idleFor>>
        \/ /\ session.at \in {"failed", "done"} /\ session' = [session EXCEPT !.at = Over]
           /\ \/ status' = [state |-> "error", cast |-> session.cast]
              \/ status' = [state |-> "idle", cast |-> NoCast]
           /\ events' = events + 1 /\ idleFor' = 0 /\ UNCHANGED lastEvent
    <2>1. CASE Begins
      BY <2>1 DEF Begins, SetStatus
    <2>2. CASE Plays
      BY <2>2 DEF Plays, SetStatus
    <2>3. CASE Reports
      BY <2>3 DEF Reports, SetStatus
    <2>4. ASSUME NEW kind \in {"", "error", "ended"}, Ends(kind)
          PROVE  /\ session.at \in {"setup", "playing"}
                 /\ \/ session' = [session EXCEPT !.at = "failed"]
                    \/ session' = [session EXCEPT !.at = "done"]
                 /\ \/ UNCHANGED lastEvent
                    \/ lastEvent' = [kind |-> "error", cast |-> session.cast]
                    \/ lastEvent' = [kind |-> "ended", cast |-> session.cast]
                 /\ UNCHANGED <<status, events, idleFor>>
      BY <2>4 DEF Ends
    <2> QED
      BY <1>1, <2>1, <2>2, <2>3, <2>4
  <1>n. /\ session.cast \in Nat /\ session.cast <= MaxCasts /\ accepted \in Nat
        /\ accepted <= MaxCasts /\ MaxCasts \in Nat
        /\ session = [cast |-> session.cast, at |-> session.at]
    BY <1>t, BoundAssumption DEF Typed, Number
  <1>s. /\ session'.cast = IF session.at = Over THEN session.cast + 1 ELSE session.cast
        /\ session'.at # session.at
        /\ session'.at \in {Over, "setup", "playing", "failed", "done"}
        /\ session.at = Over => session.cast < accepted /\ session'.at = "setup"
        /\ session'.at = Over => session.at \in {"failed", "done"} /\ idleFor' = 0
    BY <1>2, <1>n DEF Over
  <1>3. Typed'
    <2>1. session' \in [cast : Number, at : {Over, "setup", "playing", "failed", "done"}]
      <3>1. session'.cast \in Number
        BY <1>s, <1>n, <1>t DEF Typed, Number
      <3>2. session' = [cast |-> session'.cast, at |-> session'.at]
        BY <1>2, <1>n
      <3> QED
        BY <1>s, <3>1, <3>2
    <2>2. status' \in Status
      <3>1. session.cast \in 0 .. MaxCasts /\ NoCast \in 0 .. MaxCasts
              /\ (session.cast < accepted => session.cast + 1 \in 0 .. MaxCasts)
        BY <1>n DEF NoCast
      <3>2. status \in Status
        BY <1>t DEF Typed
      <3> QED
        BY <1>2, <3>1, <3>2 DEF Status
    <2>3. lastEvent' \in Reason
      <3>1. session.cast \in 0 .. MaxCasts /\ lastEvent \in Reason
        BY <1>n, <1>t DEF Typed
      <3>2. [kind |-> "error", cast |-> session.cast] \in Reason
              /\ [kind |-> "ended", cast |-> session.cast] \in Reason
        BY <3>1 DEF Reason
      <3>3. \/ UNCHANGED lastEvent
            \/ lastEvent' = [kind |-> "error", cast |-> session.cast]
            \/ lastEvent' = [kind |-> "ended", cast |-> session.cast]
        BY <1>2
      <3> QED
        BY <3>1, <3>2, <3>3
    <2>4. events' \in Nat
      BY <1>2, <1>t DEF Typed
    <2> QED
      BY <1>1, <1>t, <2>1, <2>2, <2>3, <2>4 DEF Typed
  <1>4. Flags'
    BY <1>1 DEF Inv, Flags
  <1>5. Counters'
    <2>1. idleFor' \in 0 .. IdleExit + 1
      BY <1>2, BoundAssumption DEF Inv, Counters
    <2> QED
      BY <1>1, <2>1 DEF Inv, Counters
  <1>6. Numbers'
    <2>1. session'.cast <= accepted
      BY <1>s, <1>n, <1>t DEF Numbers
    <2>2. status'.cast <= accepted
      <3>1. status.cast <= accepted /\ session.cast <= accepted
        BY <1>t DEF Numbers
      <3> QED
        BY <1>2, <1>n, <3>1 DEF NoCast
    <2>3. session'.at # Over => session'.cast # NoCast
      BY <1>s, <1>n, <1>t DEF Numbers, NoCast
    <2> QED
      BY <1>1, <1>t, <2>1, <2>2, <2>3 DEF Numbers
  <1>7. Way'
    BY <1>1, WayUnchanged DEF Inv
  <1>f. FirstNotOver' = IF session'.at = Over THEN FirstNotOver + 1 ELSE FirstNotOver
    BY <1>s DEF FirstNotOver
  <1>g. FirstNotOver \in Nat
    BY <1>n DEF FirstNotOver
  <1>8. Dated'
    <2>1. ASSUME NEW c \in Cast, c <= accepted PROVE earliest[c] <= FirstNotOver'
      <3>1. earliest[c] \in Nat /\ earliest[c] <= FirstNotOver
        BY <1>t, <2>1 DEF Typed, Dated, Cast
      <3> QED
        BY <3>1, <1>f, <1>g
    <2>2. ASSUME lastEvent'.cast # NoCast, NEW c \in Cast, c <= accepted
          PROVE  earliest[c] <= lastEvent'.cast
      <3>1. CASE UNCHANGED lastEvent
        BY <2>2, <3>1, <1>t DEF Dated
      <3>2. CASE lastEvent' # lastEvent
        <4>1. lastEvent'.cast = FirstNotOver
          BY <1>2, <3>2 DEF FirstNotOver, Over
        <4> QED
          BY <2>2, <4>1, <1>t DEF Dated
      <3> QED
        BY <3>1, <3>2
    <2> QED
      BY <1>1, <2>1, <2>2 DEF Dated
  <1>9. Exit'
    <2>1. session'.at # Over => status'.state \in {"connecting", "casting"}
      <3>1. session.at # Over => status.state \in {"connecting", "casting"}
        BY <1>t DEF Exit
      <3>2. session'.at # Over => \/ UNCHANGED status /\ session.at # Over
                                  \/ status'.state \in {"connecting", "casting"}
        <4>1. session.at \in {"failed", "done"} => session'.at = Over
          BY <1>2, <1>n DEF Over
        <4> QED
          BY <1>2, <4>1 DEF Over
      <3> QED
        BY <3>1, <3>2
    <2>2. session'.at = Over => idleFor' = 0
      BY <1>s
    <2>3. leaving' = "quiet" /\ FirstNotOver' <= accepted' => idleFor' = 0
      <3>1. idleFor' = 0 \/ (UNCHANGED idleFor /\ FirstNotOver' = FirstNotOver)
        BY <1>2, <1>f, <1>s DEF Over
      <3> QED
        BY <3>1, <1>1, <1>t DEF Exit
    <2>4. leaving' = "decided" /\ FirstNotOver' <= accepted' => late'
      <3>1. FirstNotOver' <= accepted => FirstNotOver <= accepted
        BY <1>f, <1>g, <1>n
      <3>2. leaving = "decided" /\ FirstNotOver <= accepted => late
        BY <1>t DEF Exit
      <3> QED
        BY <1>1, <3>1, <3>2
    <2> QED
      BY <2>1, <2>2, <2>3, <2>4 DEF Exit
  <1> QED
    BY <1>3, <1>4, <1>5, <1>6, <1>7, <1>8, <1>9 DEF Inv

(* The session, the status and the reason are left alone, and no cast is     *)
(* accepted.                                                                 *)
Aside == UNCHANGED <<up, status, lastEvent, accepted, session, earliest, leaving, late,
                     menu, subscribed, opens, behind>>

LEMMA AsideInv ==
  ASSUME Inv, Aside, Way', events' \in Nat,
         idleFor' \in {0, idleFor}, StartCast \in calls' => StartCast \in calls
  PROVE  Inv'
  <1>1. Typed' /\ Flags'
    BY DEF Aside, Inv, Typed, Flags
  <1>2. Counters'
    <2>1. idleFor' \in 0 .. IdleExit + 1
      BY BoundAssumption DEF Inv, Counters
    <2> QED
      BY <2>1 DEF Aside, Inv, Counters
  <1>3. Numbers'
    BY DEF Aside, Inv, Numbers
  <1>4. Dated'
    BY DEF Aside, Inv, Dated, FirstNotOver
  <1>5. Exit'
    <2>1. FirstNotOver' = FirstNotOver
      BY DEF Aside, FirstNotOver
    <2> QED
      BY <2>1 DEF Aside, Inv, Exit
  <1> QED
    BY <1>1, <1>2, <1>3, <1>4, <1>5 DEF Inv

LEMMA KnownUnchanged ==
  ASSUME UNCHANGED <<accepted, earliest>>
  PROVE  TrueItem' = TrueItem /\ KnownCall' = KnownCall
  BY DEF TrueItem, KnownCall

LEMMA CallInv == Inv /\ (HandleGetStatus \/ HandleGetLastEvent \/ RefuseStartCast) => Inv'
  <1> SUFFICES ASSUME Inv, HandleGetStatus \/ HandleGetLastEvent \/ RefuseStartCast
               PROVE  Inv'
    OBVIOUS
  <1>t. Typed /\ Numbers /\ Way /\ Dated
    BY DEF Inv
  <1>1. Aside /\ UNCHANGED <<wire, events>> /\ idleFor' = 0
    BY DEF HandleGetStatus, HandleGetLastEvent, RefuseStartCast, Handled, Aside,
           sessionVars, menuVars
  <1>2. PICK c \in calls : calls' = calls \ {c}
    BY DEF HandleGetStatus, HandleGetLastEvent, RefuseStartCast, Handled
  <1>3. answers' = answers
          \/ \E a \in TrueItem : answers' = answers \cup {a} /\ a.is \in {"status", "reason"}
    <2>1. CASE HandleGetStatus
      <3>1. StatusReply(status) \in TrueItem
        BY <1>t, Writes DEF Typed, Numbers
      <3> QED
        BY <2>1, <3>1 DEF HandleGetStatus, StatusReply
    <2>2. CASE HandleGetLastEvent
      <3>1. PICK k \in calls : answers' = answers \cup {ReasonReply(lastEvent, k)}
        BY <2>2 DEF HandleGetLastEvent
      <3>2. k \in Call /\ k.about <= accepted
        BY <1>t DEF Way, KnownCall
      <3>3. ReasonReply(lastEvent, k) \in Answer /\ ReasonReply(lastEvent, k).is = "reason"
              /\ ReasonReply(lastEvent, k).about = k.about
              /\ ReasonReply(lastEvent, k).of = lastEvent
        BY <1>t, <3>2 DEF ReasonReply, Answer, Call, Typed
      <3>4. lastEvent.cast # NoCast /\ k.about # NoCast
              => lastEvent.cast >= earliest[k.about]
        <4>1. ASSUME lastEvent.cast # NoCast, k.about # NoCast
              PROVE  lastEvent.cast >= earliest[k.about]
          <5>1. k.about \in Cast
            <6>1. k.about \in Number
              BY <3>2 DEF Call
            <6> QED
              BY <4>1, <6>1, BoundAssumption DEF Number, Cast, NoCast
          <5>2. earliest[k.about] <= lastEvent.cast
            BY <1>t, <3>2, <4>1, <5>1 DEF Dated
          <5>3. earliest[k.about] \in Int /\ lastEvent.cast \in Int
            <6>1. lastEvent \in Reason /\ earliest[k.about] \in Cast
              BY <1>t, <5>1 DEF Typed
            <6>2. lastEvent.cast \in 0 .. MaxCasts
              BY <6>1 DEF Reason
            <6> QED
              BY <6>1, <6>2 DEF Cast
          <5> QED
            BY <5>2, <5>3
        <4> QED
          BY <4>1
      <3>5. ReasonReply(lastEvent, k) \in TrueItem
        BY <3>2, <3>3, <3>4 DEF TrueItem, Item
      <3> QED
        BY <3>1, <3>3, <3>5
    <2>3. CASE RefuseStartCast
      BY <2>3 DEF RefuseStartCast
    <2> QED
      BY <2>1, <2>2, <2>3
  <1>4. Way'
    <2>1. TrueItem' = TrueItem /\ KnownCall' = KnownCall
      BY <1>1, KnownUnchanged DEF Aside
    <2>2. calls' \subseteq KnownCall /\ IsFiniteSet(calls')
      BY <1>2, <1>t, FS_RemoveElement DEF Way
    <2>3. IsFiniteSet(answers')
      BY <1>3, <1>t, FS_AddElement DEF Way
    <2>4. answers' \subseteq TrueItem /\ \A a \in answers' : a.is \in {"status", "reason"}
      BY <1>3, <1>t DEF Way
    <2>5. wire' \in Seq(TrueItem)
      BY <1>1, <1>t DEF Way
    <2> QED
      BY <2>1, <2>2, <2>3, <2>4, <2>5 DEF Way
  <1>5. events' \in Nat
    BY <1>1, <1>t DEF Typed
  <1> QED
    BY <1>1, <1>2, <1>4, <1>5, AsideInv

LEMMA WireInv == Inv /\ (WriteReply \/ Forward) => Inv'
  <1> SUFFICES ASSUME Inv, WriteReply \/ Forward PROVE Inv'
    OBVIOUS
  <1>t. Typed /\ Numbers /\ Way
    BY DEF Inv
  <1>1. Aside /\ UNCHANGED <<calls, idleFor>>
    BY DEF WriteReply, Forward, Aside, sessionVars, menuVars
  <1>2. events' \in Nat
    BY <1>t DEF WriteReply, Forward, Typed
  <1>3. \E m \in TrueItem : wire' = Append(wire, m)
    <2>1. Signal(status) \in TrueItem
      BY <1>t, Writes DEF Typed, Numbers
    <2> QED
      BY <2>1, <1>t DEF WriteReply, Forward, Way
  <1>4. /\ IsFiniteSet(answers') /\ answers' \subseteq TrueItem
        /\ \A a \in answers' : a.is \in {"status", "reason"}
    <2>1. CASE WriteReply
      <3>1. PICK a \in answers : answers' = answers \ {a}
        BY <2>1 DEF WriteReply
      <3> QED
        BY <3>1, <1>t, FS_RemoveElement DEF Way
    <2>2. CASE Forward
      <3>1. answers' = {Overtaken(a) : a \in answers}
        BY <2>2 DEF Forward
      <3>2. IsFiniteSet(answers')
        BY <3>1, <1>t, OvertakenFinite DEF Way
      <3>3. ASSUME NEW a \in answers
            PROVE  Overtaken(a) \in TrueItem /\ Overtaken(a).is \in {"status", "reason"}
        <4>1. a \in TrueItem /\ a.is \in {"status", "reason"} /\ a \in Item
          BY <1>t DEF Way, TrueItem
        <4>2. CASE a.is = "status"
          <5>1. a \in State /\ a.of.cast <= accepted
            BY <4>1, <4>2, Kinds DEF TrueItem
          <5>2. [a EXCEPT !.stale = TRUE] \in State
            BY <5>1 DEF State
          <5>3. [a EXCEPT !.stale = TRUE].is = "status" /\ [a EXCEPT !.stale = TRUE].of = a.of
            BY <4>2, <5>1 DEF State
          <5>4. [a EXCEPT !.stale = TRUE] \in TrueItem
            BY <5>1, <5>2, <5>3 DEF TrueItem, Item
          <5> QED
            BY <4>1, <5>3, <5>4 DEF Overtaken
        <4>3. CASE a.is # "status"
          BY <4>1, <4>3 DEF Overtaken
        <4> QED
          BY <4>2, <4>3
      <3> QED
        BY <3>1, <3>2, <3>3
    <2> QED
      BY <2>1, <2>2
  <1>5. Way'
    <2>1. TrueItem' = TrueItem /\ KnownCall' = KnownCall
      BY <1>1, KnownUnchanged DEF Aside
    <2>2. wire' \in Seq(TrueItem)
      BY <1>3, <1>t DEF Way
    <2>3. calls' \subseteq KnownCall /\ IsFiniteSet(calls')
      BY <1>1, <1>t DEF Way
    <2> QED
      BY <1>4, <2>1, <2>2, <2>3 DEF Way
  <1> QED
    BY <1>1, <1>2, <1>5, AsideInv

(* A cast is accepted: the last reason is cleared, and the cast is told from *)
(* those that were over.                                                     *)
LEMMA AcceptInv == Inv /\ AcceptStartCast => Inv'
  <1> SUFFICES ASSUME Inv, AcceptStartCast PROVE Inv'
    OBVIOUS
  <1>t. Typed /\ Numbers /\ Way /\ Dated /\ Exit
    BY DEF Inv
  <1>1. /\ UNCHANGED <<up, status, events, leaving, session, answers, wire, menu, subscribed,
                       opens, behind>>
        /\ accepted' = accepted + 1
        /\ earliest' = [earliest EXCEPT ![accepted + 1] = FirstNotOver]
        /\ lastEvent' = NoReason /\ late' = (leaving = "decided")
        /\ StartCast \in calls /\ calls' = calls \ {StartCast} /\ idleFor' = 0
    BY DEF AcceptStartCast, Handled, menuVars
  <1>n. /\ accepted \in Nat /\ accepted < MaxCasts /\ MaxCasts \in Nat
        /\ session.cast \in Nat /\ session.cast <= accepted
        /\ accepted + 1 \in Cast
        /\ status.cast \in Nat /\ menu.cast \in Nat
    BY <1>1, <1>t, BoundAssumption DEF Typed, Numbers, Number, Cast, Status
  <1>f. FirstNotOver' = FirstNotOver /\ FirstNotOver \in Nat /\ FirstNotOver <= accepted + 1
    BY <1>1, <1>n DEF FirstNotOver
  <1>2. Typed'
    <2>1. accepted' \in Number
      BY <1>1, <1>n DEF Number
    <2>2. earliest' \in [Cast -> Cast]
      <3>1. CASE session.at = Over
        <4>1. FirstNotOver \in Cast
          BY <1>n, <3>1 DEF FirstNotOver, Cast
        <4> QED
          BY <1>1, <1>t, <4>1 DEF Typed
      <3>2. CASE session.at # Over /\ session.cast # 0
        <4>1. FirstNotOver \in Cast
          BY <1>n, <3>2 DEF FirstNotOver, Cast
        <4> QED
          BY <1>1, <1>t, <4>1 DEF Typed
      <3>3. session.at # Over => session.cast # 0
        BY <1>t DEF Numbers, NoCast
      <3> QED
        BY <3>1, <3>2, <3>3
    <2>3. NoReason \in Reason
      BY <1>n DEF NoReason, Reason, NoCast
    <2> QED
      BY <1>1, <1>t, <2>1, <2>2, <2>3 DEF Typed
  <1>3. Flags'
    <2>1. late' \in BOOLEAN
      BY <1>1
    <2> QED
      BY <1>1, <2>1 DEF Inv, Flags
  <1>4. Counters'
    <2>1. 0 \in 0 .. IdleExit + 1
      BY BoundAssumption
    <2> QED
      BY <1>1, <2>1 DEF Inv, Counters
  <1>5. Numbers'
    BY <1>1, <1>n, <1>t DEF Numbers
  <1>e. \A c \in Cast : c <= accepted => earliest'[c] = earliest[c]
    BY <1>1, <1>n, <1>t DEF Typed, Cast
  <1>6. Way'
    <2>1. KnownCall \subseteq KnownCall'
      <3>1. ASSUME NEW c \in KnownCall PROVE c \in Call /\ c.about <= accepted + 1
        <4>1. c \in Call /\ c.about <= accepted /\ c.about \in Number
          BY DEF KnownCall, Call
        <4> QED
          BY <4>1, <1>n DEF Number
      <3> QED
        BY <3>1, <1>1 DEF KnownCall
    <2>2. TrueItem \subseteq TrueItem'
      <3>1. ASSUME NEW r \in TrueItem PROVE r \in TrueItem'
        <4>1. r \in Item
          BY DEF TrueItem
        <4>2. r.is \in {"signal", "status"} => r.of.cast <= accepted + 1
          <5>1. ASSUME r.is \in {"signal", "status"} PROVE r.of.cast <= accepted + 1
            <6>1. r.of.cast \in Nat /\ r.of.cast <= accepted
              BY <4>1, <5>1, Kinds DEF State, Status, TrueItem
            <6> QED
              BY <6>1, <1>n
          <5> QED
            BY <5>1
        <4>3. ASSUME r.is = "reason"
              PROVE  /\ r.about <= accepted + 1
                     /\ r.of.cast # NoCast /\ r.about # NoCast
                          => r.of.cast >= earliest'[r.about]
          <5>1. r.about \in Number /\ r.about <= accepted
                  /\ (r.of.cast # NoCast /\ r.about # NoCast => r.of.cast >= earliest[r.about])
            BY <4>1, <4>3, Kinds DEF Answer, TrueItem
          <5>2. r.about # NoCast => r.about \in Cast
            BY <5>1, <1>n DEF Number, Cast, NoCast
          <5>3. r.about <= accepted + 1
            BY <5>1, <1>n DEF Number
          <5> QED
            BY <5>1, <5>2, <5>3, <1>e
        <4> QED
          BY <4>1, <4>2, <4>3, <1>1 DEF TrueItem
      <3> QED
        BY <3>1
    <2>3. IsFiniteSet(calls')
      BY <1>1, <1>t, FS_RemoveElement DEF Way
    <2>4. wire' \in Seq(TrueItem')
      <3>1. wire \in Seq(TrueItem)
        BY <1>t DEF Way
      <3> QED
        BY <1>1, <2>2, <3>1
    <2> QED
      BY <1>1, <1>t, <2>1, <2>2, <2>3, <2>4 DEF Way
  <1>7. Dated'
    <2>1. ASSUME NEW c \in Cast, c <= accepted + 1 PROVE earliest'[c] <= FirstNotOver
      <3>1. CASE c <= accepted
        BY <1>e, <1>t, <3>1 DEF Dated
      <3>2. CASE c = accepted + 1
        BY <1>1, <1>f, <1>t, <3>2 DEF Typed
      <3> QED
        BY <2>1, <3>1, <3>2, <1>n DEF Cast
    <2> QED
      BY <1>1, <1>f, <2>1 DEF Dated, NoReason
  <1>8. Exit'
    BY <1>1, <1>t DEF Exit
  <1> QED
    BY <1>2, <1>3, <1>4, <1>5, <1>6, <1>7, <1>8 DEF Inv

LEMMA GoneInv == Inv /\ Gone => Inv'
  <1> SUFFICES ASSUME Inv, Gone PROVE Inv'
    OBVIOUS
  <1>t. Typed /\ Numbers /\ Way /\ Dated
    BY DEF Inv
  <1>1. /\ up' = FALSE /\ status' = Idle /\ lastEvent' = NoReason /\ events' = 0
        /\ session' = [cast |-> accepted, at |-> Over] /\ leaving' = "waiting"
        /\ late' = FALSE /\ calls' = {} /\ answers' = {}
        /\ wire' = wire \o <<DaemonGone>> \o SetToSeq(Unanswered)
        /\ UNCHANGED <<idleFor, accepted, earliest, menu, subscribed, opens, behind>>
    BY DEF Gone, menuVars
  <1>n. accepted \in Nat /\ accepted <= MaxCasts /\ MaxCasts \in Nat
    BY <1>t, BoundAssumption DEF Typed, Number
  <1>i. /\ Idle \in Status /\ NoReason \in Reason
        /\ Idle.cast = 0 /\ Idle.state = "idle" /\ NoReason.cast = 0
    BY BoundAssumption DEF Idle, Status, NoReason, Reason, NoCast
  <1>2. Typed'
    <2>1. session' \in [cast : Number, at : {Over, "setup", "playing", "failed", "done"}]
      BY <1>1, <1>t DEF Typed
    <2> QED
      BY <1>1, <1>i, <1>t, <2>1 DEF Typed
  <1>3. Flags' /\ Counters'
    BY <1>1 DEF Inv, Flags, Counters
  <1>4. Numbers'
    BY <1>1, <1>i, <1>n, <1>t DEF Numbers
  <1>5. Way'
    <2>1. TrueItem' = TrueItem /\ KnownCall' = KnownCall
      BY <1>1, KnownUnchanged
    <2>2. wire' \in Seq(TrueItem)
      <3>1. SetToSeq(Unanswered) \in Seq(TrueItem)
        BY <1>t, UnansweredTrue, UnansweredFinite, AllInOrder DEF Way
      <3>2. wire \in Seq(TrueItem) /\ <<DaemonGone>> \in Seq(TrueItem)
        <4>1. DaemonGone \in TrueItem
          BY <1>t, Writes
        <4> QED
          BY <1>t, <4>1 DEF Way
      <3> QED
        BY <1>1, <3>1, <3>2
    <2>3. IsFiniteSet({})
      BY FS_EmptySet
    <2> QED
      BY <1>1, <2>1, <2>2, <2>3 DEF Way
  <1>6. Dated'
    <2>1. ASSUME NEW c \in Cast, c <= accepted PROVE earliest[c] <= accepted + 1
      <3>1. earliest[c] \in Nat /\ earliest[c] <= FirstNotOver
        BY <1>t, <2>1 DEF Typed, Dated, Cast
      <3>2. FirstNotOver \in Nat /\ FirstNotOver <= accepted + 1
        BY <1>t, <1>n DEF Typed, Numbers, FirstNotOver, Number
      <3> QED
        BY <3>1, <3>2, <1>n
    <2>2. FirstNotOver' = accepted + 1
      BY <1>1 DEF FirstNotOver
    <2> QED
      BY <1>1, <1>i, <2>1, <2>2 DEF Dated, NoCast
  <1>7. Exit'
    BY <1>1, <1>n DEF Exit
  <1> QED
    BY <1>2, <1>3, <1>4, <1>5, <1>6, <1>7 DEF Inv

(* Time, the looks of the idle exit and the activation. *)
LEMMA ClockInv == Inv /\ (Tick \/ ReadStatus \/ ReadActivity \/ Activate) => Inv'
  <1> SUFFICES ASSUME Inv, Tick \/ ReadStatus \/ ReadActivity \/ Activate PROVE Inv'
    OBVIOUS
  <1>t. Typed /\ Numbers /\ Way /\ Exit /\ Counters
    BY DEF Inv
  <1>1. UNCHANGED <<status, events, late, lastEvent, accepted, session, earliest,
                    calls, answers, wire, menu, subscribed, opens, behind>>
    BY DEF Tick, ReadStatus, ReadActivity, Activate, sessionVars, busVars, menuVars
  <1>2. /\ up' \in BOOLEAN /\ leaving' \in {"waiting", "quiet", "decided"}
        /\ idleFor' \in 0 .. IdleExit + 1
    <2>1. CASE Tick
      BY <2>1, <1>t, BoundAssumption DEF Tick, Typed, Counters, Inv, Flags
    <2>2. CASE ReadStatus \/ ReadActivity \/ Activate
      <3>1. up' \in BOOLEAN
        BY <2>2 DEF ReadStatus, ReadActivity, Activate, Inv, Flags
      <3>2. leaving' \in {"waiting", "quiet", "decided"}
        BY <2>2, <1>t DEF ReadStatus, ReadActivity, Activate, Typed
      <3>3. idleFor' \in {0, idleFor}
        BY <2>2 DEF ReadStatus, ReadActivity, Activate
      <3> QED
        BY <3>1, <3>2, <3>3, <1>t, BoundAssumption DEF Counters
    <2> QED
      BY <2>1, <2>2
  <1>3. Typed' /\ Numbers'
    BY <1>1, <1>2, <1>t DEF Typed, Numbers
  <1>4. Flags'
    BY <1>1, <1>2 DEF Inv, Flags
  <1>5. Counters'
    BY <1>1, <1>2, <1>t DEF Counters
  <1>6. Way'
    BY <1>1, <1>t, WayUnchanged
  <1>f. FirstNotOver' = FirstNotOver
    BY <1>1 DEF FirstNotOver
  <1>7. Dated'
    BY <1>1, <1>f DEF Inv, Dated
  <1>8. Exit'
    <2>1. CASE Tick
      <3>1. /\ UNCHANGED leaving /\ leaving # "quiet"
            /\ ~(session.at = Over /\ session.cast < accepted)
        BY <2>1 DEF Tick
      <3> QED
        BY <3>1, <1>1, <1>f, <1>t DEF Exit
    <2>2. CASE ReadStatus
      <3>1. leaving' = "quiet" /\ UNCHANGED idleFor /\ status.state \in {"idle", "error"}
        BY <2>2 DEF ReadStatus
      <3>2. session.at = Over
        BY <3>1, <1>t DEF Exit
      <3>3. FirstNotOver <= accepted => session.cast < accepted
        BY <3>2, <1>t DEF FirstNotOver, Typed, Number
      <3> QED
        BY <3>1, <3>2, <3>3, <1>1, <1>f, <1>t DEF Exit
    <2>3. CASE ReadActivity
      <3>1. /\ leaving = "quiet" /\ UNCHANGED idleFor
            /\ leaving' \in {"waiting", "decided"}
            /\ leaving' = "decided" => idleFor > IdleExit
        BY <2>3 DEF ReadActivity
      <3>2. leaving' = "decided" => idleFor # 0
        BY <3>1, BoundAssumption
      <3> QED
        BY <3>1, <3>2, <1>1, <1>f, <1>t DEF Exit
    <2>4. CASE Activate
      <3>1. UNCHANGED leaving /\ idleFor' = 0
        BY <2>4 DEF Activate
      <3> QED
        BY <3>1, <1>1, <1>f, <1>t DEF Exit
    <2> QED
      BY <2>1, <2>2, <2>3, <2>4
  <1> QED
    BY <1>3, <1>4, <1>5, <1>6, <1>7, <1>8 DEF Inv

(* The extension: what it knows are statuses it was told, and it asks about  *)
(* those.                                                                    *)
LEMMA SetsKnown ==
  ASSUME Inv, NEW s \in Status, s.cast <= accepted, SetState(s)
  PROVE  /\ menu' \in Status /\ menu'.cast <= accepted
         /\ calls' \subseteq KnownCall /\ IsFiniteSet(calls')
         /\ StartCast \in calls' => StartCast \in calls
  <1>t. Typed /\ Numbers /\ Way
    BY DEF Inv
  <1>1. menu' = s /\ calls' = calls \cup AsksFor(s)
    BY DEF SetState
  <1>2. s.cast \in Number /\ menu.cast \in Number /\ menu.cast <= accepted
    BY <1>t DEF Status, Number, Typed, Numbers
  <1>3. /\ GetLastEvent("error", s.cast) \in KnownCall
        /\ GetLastEvent("ended", menu.cast) \in KnownCall
    BY <1>2, <1>t, Asks
  <1>4. /\ GetLastEvent("error", s.cast) # StartCast
        /\ GetLastEvent("ended", menu.cast) # StartCast
    <2>1. /\ GetLastEvent("error", s.cast).call = "GetLastEvent"
          /\ GetLastEvent("ended", menu.cast).call = "GetLastEvent"
          /\ StartCast.call = "StartCast"
      BY DEF GetLastEvent, StartCast
    <2> QED
      BY <2>1
  <1>5. AsksFor(s) \in {{}, {GetLastEvent("error", s.cast)}, {GetLastEvent("ended", menu.cast)}}
    BY DEF AsksFor
  <1>6. IsFiniteSet(AsksFor(s))
    <2>1. /\ IsFiniteSet({}) /\ IsFiniteSet({GetLastEvent("error", s.cast)})
          /\ IsFiniteSet({GetLastEvent("ended", menu.cast)})
      BY FS_EmptySet, FS_Singleton
    <2> QED
      BY <1>5, <2>1
  <1> QED
    BY <1>1, <1>3, <1>4, <1>5, <1>6, <1>t, FS_Union DEF Way

LEMMA MenuInv == Inv /\ ExtensionStep => Inv'
  <1> SUFFICES ASSUME Inv, ExtensionStep PROVE Inv'
    OBVIOUS
  <1>t. Typed /\ Numbers /\ Way
    BY DEF Inv
  <1>a. GetStatus \in KnownCall /\ StartCast \in KnownCall
    BY <1>t, Asks
  <1>g. GetStatus # StartCast
    <2>1. GetStatus.call = "GetStatus" /\ StartCast.call = "StartCast"
      BY DEF GetStatus, StartCast
    <2> QED
      BY <2>1
  <1>1. UNCHANGED <<up, status, events, idleFor, leaving, late, lastEvent, accepted, session,
                    earliest, answers>>
    BY DEF ExtensionStep, SignalArrives, StatusArrives, ReasonArrives, GoneArrives, Subscribe,
           OpenMenu, AskForCast, sessionVars, busVars
  <1>2. wire' = wire \/ (wire # <<>> /\ wire' = Tail(wire))
    BY DEF ExtensionStep, SignalArrives, StatusArrives, ReasonArrives, GoneArrives, Subscribe,
           OpenMenu, AskForCast, Next1, busVars
  <1>3. subscribed' \in BOOLEAN /\ opens' \in 0 .. MaxOpens
    <2>1. subscribed \in BOOLEAN /\ opens \in 0 .. MaxOpens
      BY DEF Inv, Flags, Counters
    <2>2. subscribed' \in {TRUE, subscribed}
      BY DEF ExtensionStep, SignalArrives, StatusArrives, ReasonArrives, GoneArrives, Subscribe,
             OpenMenu, AskForCast, menuVars
    <2>3. opens' = opens \/ (opens < MaxOpens /\ opens' = opens + 1)
      BY DEF ExtensionStep, SignalArrives, StatusArrives, ReasonArrives, GoneArrives, Subscribe,
             OpenMenu, AskForCast, menuVars
    <2> HIDE DEF ExtensionStep
    <2>4. opens' \in 0 .. MaxOpens
      BY <2>1, <2>3, BoundAssumption
    <2> QED
      BY <2>1, <2>2, <2>4
  <1>h. ASSUME wire # <<>>, Head(wire).is \in {"signal", "status"}
        PROVE  Head(wire).of \in Status /\ Head(wire).of.cast <= accepted
               /\ (Head(wire).is = "status" => Head(wire).stale \in BOOLEAN)
    <2>1. Head(wire) \in TrueItem
      BY <1>t, <1>h DEF Way
    <2>2. Head(wire) \in State
      BY <1>h, <2>1, Kinds DEF TrueItem
    <2> QED
      BY <1>h, <2>1, <2>2 DEF TrueItem, State
  <1>b. behind' \in BOOLEAN
    <2>1. behind \in BOOLEAN /\ subscribed \in BOOLEAN
      BY DEF Inv, Flags
    <2>2. CASE SignalArrives
      <3>1. behind' = ~subscribed
        BY <2>2 DEF SignalArrives
      <3> QED
        BY <2>1, <3>1
    <2>3. CASE StatusArrives
      <3>1. behind' = Head(wire).stale /\ wire # <<>> /\ Head(wire).is = "status"
        BY <2>3 DEF StatusArrives, Next1
      <3> QED
        BY <1>h, <3>1
    <2>4. CASE GoneArrives
      BY <2>4 DEF GoneArrives
    <2>5. CASE ReasonArrives \/ Subscribe \/ OpenMenu \/ AskForCast
      BY <2>1, <2>5 DEF ReasonArrives, Subscribe, OpenMenu, AskForCast, menuVars
    <2> QED
      BY <2>2, <2>3, <2>4, <2>5 DEF ExtensionStep
  <1>4. /\ menu' \in Status /\ menu'.cast <= accepted
        /\ calls' \subseteq KnownCall /\ IsFiniteSet(calls')
        /\ StartCast \in calls' => accepted < MaxCasts
    <2>0. /\ menu \in Status /\ menu.cast <= accepted
          /\ calls \subseteq KnownCall /\ IsFiniteSet(calls)
          /\ StartCast \in calls => accepted < MaxCasts
      BY <1>t DEF Typed, Numbers, Way
    <2>1. CASE SignalArrives
      <3>1. wire # <<>> /\ Head(wire).is = "signal"
        BY <2>1 DEF SignalArrives, Next1
      <3>2. SetState(Head(wire).of) \/ UNCHANGED <<menu, calls>>
        BY <2>1 DEF SignalArrives
      <3> QED
        BY <1>h, <2>0, <3>1, <3>2, SetsKnown
    <2>2. CASE StatusArrives
      <3>1. wire # <<>> /\ Head(wire).is = "status" /\ SetState(Head(wire).of)
        BY <2>2 DEF StatusArrives, Next1
      <3> QED
        BY <1>h, <2>0, <3>1, SetsKnown
    <2>3. CASE GoneArrives
      <3>1. menu' = Idle /\ UNCHANGED calls
        BY <2>3 DEF GoneArrives
      <3>2. Idle \in Status /\ Idle.cast <= accepted
        BY <1>t, BoundAssumption DEF Idle, Status, NoCast, Typed, Number
      <3> QED
        BY <2>0, <3>1, <3>2
    <2>4. CASE ReasonArrives \/ Subscribe
      <3>1. UNCHANGED <<menu, calls>>
        BY <2>4 DEF ReasonArrives, Subscribe, menuVars, busVars
      <3> QED
        BY <2>0, <3>1
    <2>5. CASE OpenMenu
      <3>1. UNCHANGED menu /\ calls' = calls \cup {GetStatus}
        BY <2>5 DEF OpenMenu
      <3>2. IsFiniteSet(calls')
        BY <2>0, <3>1, FS_AddElement
      <3> QED
        BY <1>a, <1>g, <2>0, <3>1, <3>2
    <2>6. CASE AskForCast
      <3>1. UNCHANGED menu /\ calls' = calls \cup {StartCast} /\ accepted < MaxCasts
        BY <2>6 DEF AskForCast, menuVars
      <3>2. IsFiniteSet(calls')
        BY <2>0, <3>1, FS_AddElement
      <3> QED
        BY <1>a, <2>0, <3>1, <3>2
    <2> QED
      BY <2>1, <2>2, <2>3, <2>4, <2>5, <2>6 DEF ExtensionStep
  <1> HIDE DEF ExtensionStep
  <1>5. Typed' /\ Numbers'
    BY <1>1, <1>4, <1>t DEF Typed, Numbers
  <1>6. Flags'
    BY <1>1, <1>3, <1>b DEF Inv, Flags
  <1>7. Counters'
    BY <1>1, <1>3 DEF Inv, Counters
  <1>8. Way'
    <2>1. TrueItem' = TrueItem /\ KnownCall' = KnownCall
      BY <1>1, KnownUnchanged
    <2>2. wire' \in Seq(TrueItem)
      BY <1>2, <1>t DEF Way
    <2> QED
      BY <1>1, <1>4, <1>t, <2>1, <2>2 DEF Way
  <1>9. Dated' /\ Exit'
    <2>1. FirstNotOver' = FirstNotOver
      BY <1>1 DEF FirstNotOver
    <2> QED
      BY <1>1, <2>1 DEF Inv, Dated, Exit
  <1> QED
    BY <1>5, <1>6, <1>7, <1>8, <1>9 DEF Inv

-----------------------------------------------------------------------------
(* The theorems.                                                           *)

LEMMA InvStep == Inv /\ [Next]_vars => Inv'
  <1> SUFFICES ASSUME Inv, [Next]_vars PROVE Inv'
    OBVIOUS
  <1>1. CASE UNCHANGED vars
    <2>1. Aside /\ UNCHANGED <<events, idleFor, calls, answers, wire>>
      BY <1>1 DEF vars, Aside, sessionVars, busVars, menuVars
    <2>2. events' \in Nat
      BY <2>1 DEF Inv, Typed
    <2>3. Way'
      BY <2>1, WayUnchanged DEF Aside, Inv
    <2> QED
      BY <2>1, <2>2, <2>3, AsideInv
  <1>2. CASE SessionStep
    BY <1>2, SessionInv
  <1>3. CASE DaemonStep
    BY <1>3, CallInv, WireInv, AcceptInv, GoneInv, ClockInv DEF DaemonStep, Crash, IdleExits
  <1>4. CASE ExtensionStep
    BY <1>4, MenuInv
  <1> QED
    BY <1>1, <1>2, <1>3, <1>4 DEF Next

LEMMA Invariance == Spec => []Inv
  BY InitInv, InvStep, PTL DEF Spec

(* Every variable has its type; in particular nothing but the three calls is *)
(* asked for, and no cast beyond those.                                      *)
THEOREM TypeCorrect == Spec => []TypeOK
  <1>1. Inv => TypeOK
    <2> SUFFICES ASSUME Inv PROVE TypeOK
      OBVIOUS
    <2>1. \A c \in calls : c.call \in {"GetStatus", "StartCast", "GetLastEvent"}
      BY DEF Inv, Way, KnownCall, Call
    <2>2. Typed /\ Flags /\ Counters
      BY DEF Inv
    <2>3. up \in BOOLEAN /\ subscribed \in BOOLEAN /\ late \in BOOLEAN /\ behind \in BOOLEAN
      BY <2>2 DEF Flags
    <2> QED
      BY <2>1, <2>2, <2>3 DEF Typed, Counters, Number, TypeOK
  <1> QED
    BY <1>1, Invariance, PTL

(* "Fresh start: clear any previous session's end reason": a cast asked for  *)
(* when none was under way is never reported with the reason of an earlier.  *)
THEOREM ReasonsAreFresh == Spec => []NoOldReason
  <1>1. Inv => NoOldReason
    <2> SUFFICES ASSUME Inv, NEW i \in DOMAIN wire, OlderReason(wire[i])
                 PROVE  earliest[wire[i].about] < wire[i].about
      BY DEF NoOldReason
    <2> DEFINE of == wire[i].of.cast
               about == wire[i].about
    <2>1. wire[i] \in TrueItem /\ wire[i].is = "reason" /\ of # NoCast /\ about # NoCast
      BY DEF Inv, Way, Shown, OlderReason
    <2>2. of >= earliest[about] /\ of < about
      BY <2>1 DEF TrueItem, OlderReason
    <2>3. wire[i] \in Answer
      BY <2>1 DEF TrueItem, Item, State, DaemonGone
    <2>4. of \in Number /\ about \in Number
      BY <2>3 DEF Answer, Reason, Number
    <2>5. earliest[about] \in Cast
      BY <2>1, <2>4 DEF Inv, Typed, Cast, Number, NoCast
    <2> HIDE DEF of, about
    <2>6. of \in Nat /\ about \in Nat /\ earliest[about] \in Nat
      BY <2>4, <2>5, BoundAssumption DEF Number, Cast
    <2>7. earliest[about] < about
      BY <2>2, <2>6
    <2> QED
      BY <2>7 DEF about
  <1> QED
    BY <1>1, Invariance, PTL

(* For any idle time and any number of casts, the exit of an idle daemon     *)
(* takes no cast with it that had been accepted when it decided.             *)
THEOREM NoCastTaken == Spec => ExitSparesCasts
  <1>1. Inv /\ [Next]_vars => [IdleExits => FirstNotOver > accepted \/ late]_vars
    <2> SUFFICES ASSUME Inv, IdleExits PROVE FirstNotOver > accepted \/ late
      OBVIOUS
    <2>1. leaving = "decided" /\ (FirstNotOver <= accepted => late)
      BY DEF IdleExits, Inv, Exit
    <2>2. FirstNotOver \in Nat /\ accepted \in Nat
      BY DEF Inv, Typed, Number, FirstNotOver
    <2>3. FirstNotOver <= accepted \/ FirstNotOver > accepted
      BY <2>2
    <2> QED
      BY <2>1, <2>3
  <1> QED
    BY <1>1, Invariance, PTL DEF Spec, ExitSparesCasts

-----------------------------------------------------------------------------
(* Where the menu settles.                                                 *)

(* A message that says what s is, or that is known to be old.                *)
Told(m, s) ==
    \/ m.is = "gone" /\ s = Idle
    \/ m.is = "signal" /\ m.of = s
    \/ m.is = "status" /\ (m.of = s \/ m.stale)

NoneSets(w) == \A i \in DOMAIN w : w[i].is = "reason"
LastTold(w, s) ==
    \A i \in DOMAIN w :
        w[i].is # "reason" /\ (\A j \in i + 1 .. Len(w) : w[j].is = "reason") => Told(w[i], s)

(* While no change waits to be announced, the last thing the extension will  *)
(* be handed that it sets the menu from says what the status is, or leaves   *)
(* it behind; and when it will be handed nothing, it has got there, or has   *)
(* asked.                                                                    *)
Settling ==
    events = 0 =>
        /\ \A a \in answers : a.is = "status" => a.of = status \/ a.stale
        /\ LastTold(wire, status)
        /\ NoneSets(wire) =>
             \/ behind \/ menu = status
             \/ GetStatus \in calls \/ \E a \in answers : a.is = "status"

LEMMA AppendTold ==
    ASSUME NEW X, NEW w \in Seq(X), NEW m \in X, NEW s,
           m.is = "reason" => LastTold(w, s),
           m.is # "reason" => Told(m, s)
    PROVE  /\ LastTold(Append(w, m), s)
           /\ NoneSets(Append(w, m)) => NoneSets(w) /\ m.is = "reason"
  <1> DEFINE v == Append(w, m)
  <1>1. /\ Len(w) \in Nat /\ DOMAIN w = 1 .. Len(w)
        /\ Len(v) = Len(w) + 1 /\ DOMAIN v = 1 .. Len(w) + 1
        /\ v[Len(w) + 1] = m
        /\ \A i \in 1 .. Len(w) : v[i] = w[i]
    OBVIOUS
  <1> HIDE DEF v
  <1>2. ASSUME NEW i \in DOMAIN v, v[i].is # "reason",
               \A j \in i + 1 .. Len(v) : v[j].is = "reason"
        PROVE  Told(v[i], s)
    <2>1. CASE i = Len(w) + 1
      BY <1>1, <1>2, <2>1
    <2>2. CASE i # Len(w) + 1
      <3>1. i \in 1 .. Len(w) /\ v[i] = w[i]
        BY <1>1, <1>2, <2>2
      <3>2. Len(w) + 1 \in i + 1 .. Len(v)
        BY <1>1, <3>1
      <3>3. m.is = "reason"
        BY <1>1, <1>2, <3>2
      <3>4. ASSUME NEW j \in i + 1 .. Len(w)
            PROVE  w[j].is = "reason"
        <4>1. j \in i + 1 .. Len(v) /\ v[j] = w[j]
          BY <1>1, <3>1
        <4> QED
          BY <1>2, <4>1
      <3> QED
        BY <1>1, <1>2, <3>1, <3>3, <3>4 DEF LastTold
    <2> QED
      BY <2>1, <2>2
  <1>3. ASSUME NoneSets(v)
        PROVE  NoneSets(w) /\ m.is = "reason"
    <2>1. Len(w) + 1 \in DOMAIN v /\ \A i \in DOMAIN w : i \in DOMAIN v
      BY <1>1
    <2> QED
      BY <1>1, <1>3, <2>1 DEF NoneSets
  <1>4. LastTold(v, s)
    BY <1>2 DEF LastTold
  <1> QED
    BY <1>3, <1>4 DEF v

LEMMA TailTold ==
    ASSUME NEW X, NEW w \in Seq(X), NEW s, w # <<>>, LastTold(w, s)
    PROVE  /\ LastTold(Tail(w), s)
           /\ NoneSets(Tail(w)) /\ Head(w).is # "reason" => Told(Head(w), s)
           /\ NoneSets(Tail(w)) /\ Head(w).is = "reason" => NoneSets(w)
  <1> DEFINE v == Tail(w)
  <1>1. /\ Len(w) \in Nat \ {0} /\ DOMAIN w = 1 .. Len(w)
        /\ Len(v) = Len(w) - 1 /\ DOMAIN v = 1 .. Len(w) - 1
        /\ Head(w) = w[1]
        /\ \A i \in 1 .. Len(w) - 1 : v[i] = w[i + 1]
    OBVIOUS
  <1>0. \A i \in 2 .. Len(w) : i - 1 \in 1 .. Len(w) - 1 /\ w[i] = v[i - 1]
    <2> TAKE i \in 2 .. Len(w)
    <2>1. i - 1 \in 1 .. Len(w) - 1 /\ i - 1 + 1 = i
      BY <1>1
    <2> QED
      BY <1>1, <2>1
  <1> HIDE DEF v
  <1>2. ASSUME NEW i \in DOMAIN v, v[i].is # "reason",
               \A j \in i + 1 .. Len(v) : v[j].is = "reason"
        PROVE  Told(v[i], s)
    <2>1. i + 1 \in DOMAIN w /\ v[i] = w[i + 1] /\ i \in Nat
      BY <1>1
    <2>2. ASSUME NEW j \in i + 1 + 1 .. Len(w)
          PROVE  w[j].is = "reason"
      <3>1. j \in 2 .. Len(w) /\ j - 1 \in i + 1 .. Len(v)
        BY <1>1, <2>1
      <3> QED
        BY <1>0, <1>2, <3>1
    <2> QED
      BY <1>2, <2>1, <2>2 DEF LastTold
  <1>3. ASSUME NoneSets(v)
        PROVE  \A j \in 2 .. Len(w) : w[j].is = "reason"
    BY <1>0, <1>1, <1>3 DEF NoneSets
  <1>4. ASSUME NoneSets(v), Head(w).is # "reason"
        PROVE  Told(Head(w), s)
    <2>1. 1 \in DOMAIN w /\ \A j \in 1 + 1 .. Len(w) : w[j].is = "reason"
      BY <1>1, <1>3, <1>4
    <2> QED
      BY <1>1, <1>4, <2>1 DEF LastTold
  <1>5. ASSUME NoneSets(v), Head(w).is = "reason"
        PROVE  NoneSets(w)
    <2>1. \A i \in DOMAIN w : i = 1 \/ i \in 2 .. Len(w)
      BY <1>1
    <2> QED
      BY <1>1, <1>3, <1>5, <2>1 DEF NoneSets
  <1>6. LastTold(v, s)
    BY <1>2 DEF LastTold
  <1> QED
    BY <1>4, <1>5, <1>6 DEF v

LEMMA GoneTold ==
    ASSUME NEW X, NEW w \in Seq(X), NEW g \in X, NEW u \in Seq(X), NEW s,
           g.is # "reason", Told(g, s),
           \A k \in DOMAIN u : u[k].is = "reason" \/ Told(u[k], s)
    PROVE  LET v == w \o <<g>> \o u
           IN  LastTold(v, s) /\ ~NoneSets(v)
  <1> DEFINE v == w \o <<g>> \o u
             n == Len(w)
  <1>1. /\ n \in Nat /\ Len(u) \in Nat /\ DOMAIN u = 1 .. Len(u)
        /\ Len(v) = n + 1 + Len(u) /\ DOMAIN v = 1 .. n + 1 + Len(u)
    OBVIOUS
  <1>2. v[n + 1] = g /\ \A k \in 1 .. Len(u) : v[n + 1 + k] = u[k]
    OBVIOUS
  <1> HIDE DEF v, n
  <1>3. \A i \in DOMAIN v : i <= n \/ i = n + 1 \/ (i - n - 1 \in 1 .. Len(u) /\ v[i] = u[i - n - 1])
    <2> TAKE i \in DOMAIN v
    <2>1. CASE i > n + 1
      <3>0. i \in Nat /\ n \in Nat /\ Len(u) \in Nat /\ i <= n + 1 + Len(u)
        BY <1>1
      <3>1. i - n - 1 \in 1 .. Len(u) /\ n + 1 + (i - n - 1) = i
        BY <2>1, <3>0
      <3>2. v[n + 1 + (i - n - 1)] = u[i - n - 1]
        BY <1>2, <3>1
      <3> QED
        BY <3>1, <3>2
    <2> QED
      BY <1>1, <2>1
  <1>4. ASSUME NEW i \in DOMAIN v, v[i].is # "reason",
               \A j \in i + 1 .. Len(v) : v[j].is = "reason"
        PROVE  Told(v[i], s)
    <2>1. CASE i <= n
      <3>1. n + 1 \in i + 1 .. Len(v)
        BY <1>1, <2>1
      <3> QED
        BY <1>2, <1>4, <3>1
    <2>2. CASE i = n + 1
      BY <1>2, <2>2
    <2>3. CASE i - n - 1 \in 1 .. Len(u) /\ v[i] = u[i - n - 1]
      BY <1>1, <1>4, <2>3
    <2> QED
      BY <1>3, <2>1, <2>2, <2>3
  <1>5. n + 1 \in DOMAIN v
    BY <1>1
  <1>6. ~NoneSets(v)
    BY <1>2, <1>5 DEF NoneSets
  <1>7. LastTold(v, s)
    BY <1>4 DEF LastTold
  <1> QED
    BY <1>6, <1>7 DEF v, n

LEMMA SettlingInit == Init => Settling
  <1> SUFFICES ASSUME Init
               PROVE  Settling
    OBVIOUS
  <1>1. /\ answers = {} /\ wire = <<>> /\ behind = FALSE
        /\ menu = status \/ GetStatus \in calls
    BY DEF Init
  <1> QED
    BY <1>1 DEF Settling, LastTold, NoneSets

(* Steps that say nothing and ask for no less. *)
LEMMA SettlingKept ==
    ASSUME Settling, UNCHANGED <<events, status, answers, wire, behind, menu>>,
           GetStatus \in calls => GetStatus \in calls'
    PROVE  Settling'
  BY DEF Settling

LEMMA SettlingSession ==
    ASSUME Inv, Settling, SessionStep
    PROVE  Settling'
  <1>1. events \in Nat
    BY DEF Inv, Typed
  <1>2. CASE Begins \/ Plays \/ (Reports /\ events' = events + 1)
    <2>1. events' = events + 1
      BY <1>2 DEF Begins, Plays, SetStatus
    <2> QED
      BY <1>1, <2>1 DEF Settling
  <1>3. CASE \E kind \in {"", "error", "ended"} : Ends(kind)
    BY <1>3, SettlingKept DEF Ends, busVars, menuVars
  <1>4. Reports => events' = events + 1
    BY DEF Reports, SetStatus
  <1> QED
    BY <1>2, <1>3, <1>4 DEF SessionStep

LEMMA CallNames ==
    /\ GetStatus # StartCast
    /\ \A c : c.call = "GetLastEvent" => c # GetStatus
    /\ \A s : StatusReply(s).is = "status" /\ StatusReply(s).of = s
    /\ \A r, c : ReasonReply(r, c).is = "reason"
    /\ \A s : Signal(s).is = "signal" /\ Signal(s).of = s
    /\ DaemonGone.is = "gone"
  <1>1. GetStatus.call = "GetStatus" /\ StartCast.call = "StartCast"
    BY DEF GetStatus, StartCast
  <1> QED
    BY <1>1 DEF StatusReply, ReasonReply, Signal, DaemonGone

LEMMA SettlingHandled ==
    ASSUME Inv, Settling,
           HandleGetStatus \/ HandleGetLastEvent \/ RefuseStartCast \/ AcceptStartCast
    PROVE  Settling'
  <1>1. CASE HandleGetStatus
    <2>1. /\ answers' = answers \cup {StatusReply(status)}
          /\ UNCHANGED <<status, events, wire>>
      BY <1>1 DEF HandleGetStatus
    <2>2. StatusReply(status).is = "status" /\ StatusReply(status).of = status
      BY CallNames
    <2> QED
      BY <2>1, <2>2 DEF Settling
  <1>2. CASE HandleGetLastEvent
    <2>1. PICK c \in calls : /\ c.call = "GetLastEvent" /\ calls' = calls \ {c}
                            /\ answers' = answers \cup {ReasonReply(lastEvent, c)}
                            /\ UNCHANGED <<status, events, wire, menu, behind>>
      BY <1>2 DEF HandleGetLastEvent, Handled, menuVars
    <2>2. ReasonReply(lastEvent, c).is = "reason" /\ c # GetStatus
      BY <2>1, CallNames
    <2> QED
      BY <2>1, <2>2 DEF Settling
  <1>3. CASE RefuseStartCast \/ AcceptStartCast
    <2>1. /\ calls' = calls \ {StartCast}
          /\ UNCHANGED <<events, status, answers, wire, behind, menu>>
      BY <1>3 DEF RefuseStartCast, AcceptStartCast, Handled, menuVars
    <2>2. GetStatus # StartCast
      BY CallNames
    <2> QED
      BY <2>1, <2>2, SettlingKept
  <1> QED
    BY <1>1, <1>2, <1>3

LEMMA SettlingWritten ==
    ASSUME Inv, Settling, WriteReply \/ Forward
    PROVE  Settling'
  <1>1. CASE WriteReply
    <2>1. PICK a \in answers : /\ answers' = answers \ {a} /\ wire' = Append(wire, a)
                              /\ UNCHANGED <<status, events, calls, menu, behind>>
      BY <1>1 DEF WriteReply, menuVars
    <2>2. wire \in Seq(TrueItem) /\ a \in TrueItem /\ a.is \in {"status", "reason"}
      BY DEF Inv, Way
    <2> SUFFICES ASSUME events = 0
                 PROVE  /\ \A b \in answers' : b.is = "status" => b.of = status' \/ b.stale
                        /\ LastTold(wire', status')
                        /\ NoneSets(wire') =>
                             \/ behind' \/ menu' = status'
                             \/ GetStatus \in calls' \/ \E b \in answers' : b.is = "status"
      BY <2>1 DEF Settling
    <2>3. /\ \A b \in answers : b.is = "status" => b.of = status \/ b.stale
          /\ LastTold(wire, status)
          /\ NoneSets(wire) =>
               \/ behind \/ menu = status
               \/ GetStatus \in calls \/ \E b \in answers : b.is = "status"
      BY DEF Settling
    <2>4. a.is # "reason" => Told(a, status)
      BY <2>2, <2>3 DEF Told
    <2> DEFINE v == Append(wire, a)
    <2>5. LastTold(v, status) /\ (NoneSets(v) => NoneSets(wire) /\ a.is = "reason")
      BY <2>2, <2>3, <2>4, AppendTold
    <2> HIDE DEF v
    <2> QED
      BY <2>1, <2>3, <2>5 DEF v
  <1>2. CASE Forward
    <2>1. /\ wire' = Append(wire, Signal(status))
          /\ answers' = {Overtaken(a) : a \in answers}
          /\ UNCHANGED <<status, menu, behind>>
      BY <1>2 DEF Forward, menuVars
    <2>2. wire \in Seq(TrueItem) /\ Signal(status) \in TrueItem
      BY Writes DEF Inv, Way, Typed, Numbers
    <2>3. Signal(status).is # "reason" /\ Told(Signal(status), status)
      BY CallNames DEF Told
    <2> DEFINE v == Append(wire, Signal(status))
    <2>4. LastTold(v, status) /\ ~NoneSets(v)
      BY <2>2, <2>3, AppendTold
    <2> HIDE DEF v
    <2>5. ASSUME NEW a \in answers, Overtaken(a).is = "status"
          PROVE  Overtaken(a).of = status \/ Overtaken(a).stale
      <3>1. CASE a.is = "status" /\ a.of # status
        <4>1. a \in TrueItem /\ a \in Item
          BY DEF Inv, Way, TrueItem
        <4>2. a \in State
          BY <3>1, <4>1, Kinds
        <4>3. Overtaken(a) = [a EXCEPT !.stale = TRUE]
          BY <3>1 DEF Overtaken
        <4> QED
          BY <4>2, <4>3 DEF State
      <3>2. CASE ~(a.is = "status" /\ a.of # status)
        BY <2>5, <3>2 DEF Overtaken
      <3> QED
        BY <3>1, <3>2
    <2>6. \A b \in answers' : b.is = "status" => b.of = status \/ b.stale
      BY <2>1, <2>5
    <2> QED
      BY <2>1, <2>4, <2>6 DEF Settling, v
  <1> QED
    BY <1>1, <1>2

LEMMA SettlingGone ==
    ASSUME Inv, Settling, Gone
    PROVE  Settling'
  <1> DEFINE u == SetToSeq(Unanswered)
             v == wire \o <<DaemonGone>> \o u
  <1>1. /\ wire' = v /\ status' = Idle /\ answers' = {} /\ calls' = {}
    BY DEF Gone
  <1>2. Unanswered \subseteq TrueItem /\ IsFiniteSet(Unanswered)
    BY UnansweredTrue, UnansweredFinite DEF Inv, Way
  <1>3. u \in Seq(Unanswered) /\ u \in Seq(TrueItem)
    BY <1>2, AllInOrder
  <1>4. \A m \in Unanswered : m.is = "reason" \/ Told(m, Idle)
    <2>1. \A c \in calls : NoReply(c).is = "reason" \/ Told(NoReply(c), Idle)
      BY CallNames DEF NoReply, Told
    <2>2. Told(StatusReply(Idle), Idle)
      BY CallNames DEF Told
    <2>3. ASSUME NEW a \in answers, a.is # "status"
          PROVE  [a EXCEPT !.of = NoReason].is = "reason"
      <3>1. a \in Item /\ a.is = "reason"
        BY <2>3 DEF Inv, Way, TrueItem
      <3>2. a \in Answer
        BY <3>1, Kinds
      <3> QED
        BY <3>1, <3>2 DEF Answer
    <2> QED
      BY <2>1, <2>2, <2>3 DEF Unanswered
  <1>5. \A k \in DOMAIN u : u[k] \in Unanswered
    <2> HIDE DEF u
    <2> QED
      BY <1>3
  <1>6. /\ DaemonGone \in TrueItem /\ DaemonGone.is # "reason" /\ Told(DaemonGone, Idle)
        /\ wire \in Seq(TrueItem)
    BY Writes, CallNames DEF Told, Inv, Way
  <1> HIDE DEF u
  <1>7. LastTold(v, Idle) /\ ~NoneSets(v)
    BY <1>3, <1>4, <1>5, <1>6, GoneTold
  <1> HIDE DEF v
  <1> QED
    BY <1>1, <1>7 DEF Settling

LEMMA SettlingArrived ==
    ASSUME Inv, Settling, SignalArrives \/ StatusArrives \/ ReasonArrives \/ GoneArrives
    PROVE  Settling'
  <1>1. /\ wire # <<>> /\ wire' = Tail(wire) /\ wire \in Seq(TrueItem)
        /\ UNCHANGED <<status, events, answers>>
    BY DEF SignalArrives, StatusArrives, ReasonArrives, GoneArrives, Next1, Inv, Way
  <1> SUFFICES ASSUME events = 0
               PROVE  /\ \A b \in answers' : b.is = "status" => b.of = status' \/ b.stale
                      /\ LastTold(wire', status')
                      /\ NoneSets(wire') =>
                           \/ behind' \/ menu' = status'
                           \/ GetStatus \in calls' \/ \E b \in answers' : b.is = "status"
    BY <1>1 DEF Settling
  <1>2. /\ \A b \in answers : b.is = "status" => b.of = status \/ b.stale
        /\ LastTold(wire, status)
        /\ NoneSets(wire) =>
             \/ behind \/ menu = status
             \/ GetStatus \in calls \/ \E b \in answers : b.is = "status"
    BY DEF Settling
  <1> DEFINE v == Tail(wire)
             m == Head(wire)
  <1>3. /\ LastTold(v, status)
        /\ NoneSets(v) /\ m.is # "reason" => Told(m, status)
        /\ NoneSets(v) /\ m.is = "reason" => NoneSets(wire)
    BY <1>1, <1>2, TailTold
  <1>4. \/ m.is = "reason" /\ UNCHANGED <<menu, calls, behind>>
        \/ m.is = "gone" /\ menu' = Idle
        \/ m.is = "signal" /\ (menu' = m.of \/ behind')
        \/ m.is = "status" /\ menu' = m.of /\ behind' = m.stale
    BY DEF SignalArrives, StatusArrives, ReasonArrives, GoneArrives, Next1, SetState, menuVars
  <1> HIDE DEF v, m
  <1>5. ASSUME NoneSets(v)
        PROVE  \/ behind' \/ menu' = status'
               \/ GetStatus \in calls' \/ \E b \in answers' : b.is = "status"
    <2>1. CASE m.is = "reason"
      BY <1>1, <1>2, <1>3, <1>4, <1>5, <2>1
    <2>2. CASE m.is # "reason"
      BY <1>1, <1>3, <1>4, <1>5, <2>2 DEF Told
    <2> QED
      BY <2>1, <2>2
  <1> QED
    BY <1>1, <1>2, <1>3, <1>5 DEF v

LEMMA SettlingNext ==
    ASSUME Inv, Settling, [Next]_vars
    PROVE  Settling'
  <1>1. CASE Tick \/ ReadStatus \/ ReadActivity \/ Activate
    BY <1>1, SettlingKept DEF Tick, ReadStatus, ReadActivity, Activate, busVars, menuVars
  <1>2. CASE Subscribe \/ OpenMenu \/ AskForCast
    BY <1>2, SettlingKept DEF Subscribe, OpenMenu, AskForCast, busVars, menuVars
  <1>3. CASE Crash \/ IdleExits
    BY <1>3, SettlingGone DEF Crash, IdleExits
  <1>4. CASE UNCHANGED vars
    BY <1>4, SettlingKept DEF vars, busVars, menuVars
  <1> QED
    BY <1>1, <1>2, <1>3, <1>4, SettlingSession, SettlingHandled, SettlingWritten, SettlingArrived
       DEF Next, DaemonStep, ExtensionStep

(* daemon.js and castMenu.js: when nothing is under way any more, the menu   *)
(* shows what the daemon does, however calls, signals, crashes and restarts  *)
(* fell, unless it is known to be behind.                                    *)
THEOREM MenuMirrors == Spec => []MirrorSettles
  <1>1. Inv /\ Settling => MirrorSettles
    BY DEF Settling, MirrorSettles, Quiet, NoneSets
  <1>2. Init => Settling
    BY SettlingInit
  <1>3. Inv /\ Settling /\ [Next]_vars => Settling'
    BY SettlingNext
  <1> QED
    BY <1>1, <1>2, <1>3, Invariance, PTL DEF Spec

-----------------------------------------------------------------------------
(* Discovery: positions in order.                                          *)

LEMMA Least ==
    ASSUME NEW S \in SUBSET Nat, S # {}
    PROVE  \E x \in S : \A y \in S : x <= y
  <1> DEFINE less == {p \in Nat \X Nat : p[1] < p[2]}
  <1>1. OpToRel(<, Nat) = less
    BY DEF OpToRel
  <1>2. IsWellFoundedOn(less, Nat)
    BY <1>1, NatLessThanWellFounded
  <1>3. PICK x \in S : \A y \in S : <<y, x>> \notin less
    BY <1>2, WFMin
  <1>4. \A y \in S : ~(y < x)
    BY <1>3
  <1> QED
    BY <1>4

(* InOrder lists a set of positions without a repetition or an omission. *)
LEMMA InOrderListsAll ==
    ASSUME NEW n \in Nat, NEW S \in SUBSET (1 .. n)
    PROVE  /\ Cardinality(S) \in Nat
           /\ InOrder(S) \in [1 .. Cardinality(S) -> S]
           /\ \A i \in S : \E k \in 1 .. Cardinality(S) : InOrder(S)[k] = i
  <1> DEFINE c == Cardinality(S)
             upTo(i) == {j \in S : j <= i}
             rank == [i \in S |-> Cardinality(upTo(i))]
  <1>0. \A i \in S : i \in Nat
    OBVIOUS
  <1>1. IsFiniteSet(S) /\ c \in Nat
    <2>1. IsFiniteSet(1 .. n)
      BY FS_Interval
    <2>2. IsFiniteSet(S)
      BY <2>1, FS_Subset
    <2> QED
      BY <2>2, FS_CardinalityType
  <1>2. \A i \in S : upTo(i) \subseteq S /\ IsFiniteSet(upTo(i)) /\ rank[i] \in 1 .. c
    <2> TAKE i \in S
    <2>1. IsFiniteSet(upTo(i)) /\ rank[i] <= c
      BY <1>1, FS_Subset
    <2>2. i \in upTo(i)
      OBVIOUS
    <2>3. rank[i] \in Nat /\ rank[i] # 0
      BY <2>1, <2>2, FS_CardinalityType, FS_EmptySet
    <2> QED
      BY <1>1, <2>1, <2>3
  <1>3. \A i, j \in S : i < j => rank[i] < rank[j]
    <2> TAKE i, j \in S
    <2> HAVE i < j
    <2>a. i \in Nat /\ j \in Nat /\ i < j
      BY <1>0
    <2>b. \A k \in S : k <= i => k <= j
      BY <1>0, <2>a
    <2>1. upTo(i) \subseteq upTo(j) /\ j \in upTo(j) /\ j \notin upTo(i)
      <3>1. j <= j /\ ~(j <= i)
        BY <2>a
      <3> QED
        BY <2>b, <3>1
    <2>2. rank[i] <= rank[j] /\ rank[i] # rank[j]
      BY <1>2, <2>1, FS_Subset
    <2> QED
      BY <1>2, <2>2
  <1>4. \A i, j \in S : rank[i] = rank[j] => i = j
    <2> SUFFICES ASSUME NEW i \in S, NEW j \in S, rank[i] = rank[j], i # j
                 PROVE  FALSE
      OBVIOUS
    <2>1. i < j \/ j < i
      OBVIOUS
    <2> QED
      BY <1>2, <1>3, <2>1
  <1> HIDE DEF rank
  <1>5. rank \in Injection(S, 1 .. c)
    <2>1. rank \in [S -> 1 .. c]
      BY <1>2 DEF rank
    <2> QED
      BY <2>1, <1>4, Fun_IsInj
  <1>6. IsFiniteSet(1 .. c) /\ Cardinality(1 .. c) = c
    BY <1>1, FS_Interval
  <1>7. rank \in Surjection(S, 1 .. c)
    BY <1>5, <1>6, FS_Injection
  <1>8. \A k \in 1 .. c : \E i \in S : rank[i] = k
    BY <1>7, Fun_SurjectionProperties
  <1> DEFINE f == [k \in 1 .. c |-> CHOOSE i \in S : rank[i] = k]
  <1>9. f \in [1 .. c -> S] /\ \A k \in 1 .. c : rank[f[k]] = k
    BY <1>8
  <1>10. \A k, l \in DOMAIN f : k < l => f[k] < f[l]
    <2> TAKE k, l \in DOMAIN f
    <2> HAVE k < l
    <2> HIDE DEF f
    <2>1. k \in 1 .. c /\ l \in 1 .. c
      BY <1>9
    <2>2. f[k] \in S /\ f[l] \in S /\ rank[f[k]] = k /\ rank[f[l]] = l
      BY <1>9, <2>1
    <2>3. f[l] < f[k] \/ f[l] = f[k] \/ f[k] < f[l]
      <3>1. f[l] \in Nat /\ f[k] \in Nat
        BY <1>0, <2>2
      <3> QED
        BY <3>1
    <2>4. ~(f[l] < f[k])
      <3> SUFFICES ASSUME f[l] < f[k]
                   PROVE  FALSE
        OBVIOUS
      <3>1. rank[f[l]] < rank[f[k]]
        BY <1>3, <2>2
      <3> QED
        BY <1>1, <2>1, <2>2, <3>1
    <2>5. f[l] # f[k]
      BY <1>1, <2>1, <2>2
    <2> QED
      BY <2>3, <2>4, <2>5
  <1> HIDE DEF f
  <1> DEFINE g == InOrder(S)
  <1>11. g \in [1 .. c -> S] /\ \A k, l \in DOMAIN g : k < l => g[k] < g[l]
    BY <1>9, <1>10 DEF InOrder
  <1> HIDE DEF g
  <1>12. \A k, l \in 1 .. c : g[k] = g[l] => k = l
    <2> SUFFICES ASSUME NEW k \in 1 .. c, NEW l \in 1 .. c, g[k] = g[l], k < l
                 PROVE  FALSE
      BY <1>1
    <2>1. g[k] \in Nat /\ g[k] < g[l]
      BY <1>0, <1>11
    <2> QED
      BY <2>1
  <1>13. g \in Injection(1 .. c, S)
    BY <1>11, <1>12, Fun_IsInj
  <1>14. g \in Surjection(1 .. c, S)
    BY <1>1, <1>6, <1>13, FS_Injection
  <1>15. \A i \in S : \E k \in 1 .. c : g[k] = i
    BY <1>14 DEF Surjection
  <1> QED
    BY <1>1, <1>11, <1>15 DEF g

-----------------------------------------------------------------------------
(* Discovery: the addresses.                                               *)

LEMMA Joined ==
    ASSUME NEW X, NEW s \in Seq(X), NEW t \in Seq(X)
    PROVE  /\ s \o t \in Seq(X)
           /\ Len(s) \in Nat /\ Len(t) \in Nat
           /\ Len(s \o t) = Len(s) + Len(t)
           /\ DOMAIN (s \o t) = 1 .. Len(s) + Len(t)
           /\ \A i \in 1 .. Len(s) : (s \o t)[i] = s[i]
           /\ \A k \in 1 .. Len(t) : (s \o t)[Len(s) + k] = t[k]
  OBVIOUS

(* What resolved keeps of a device is every address it has announced, and    *)
(* nothing else.                                                             *)
LEMMA FreshestKeepsAll ==
    ASSUME NEW addrs \in Seq(Address), NEW known \in Seq(Address)
    PROVE  /\ Freshest(addrs, known) \in Seq(Address)
           /\ \A a : In(a, known) => In(a, Freshest(addrs, known))
           /\ Freshest(addrs, known) = <<>> => known = <<>>
  <1> DEFINE S == {i \in DOMAIN known : ~In(known[i], addrs)}
             c == Cardinality(S)
             older == InOrder(S)
             rest == [k \in 1 .. c |-> known[older[k]]]
             all == addrs \o rest
  <1>1. S \in SUBSET (1 .. Len(known)) /\ Len(known) \in Nat
    OBVIOUS
  <1>2. /\ c \in Nat /\ older \in [1 .. c -> S]
        /\ \A i \in S : \E k \in 1 .. c : older[k] = i
    BY <1>1, InOrderListsAll
  <1>s. \A i \in DOMAIN known : i \in S \/ In(known[i], addrs)
    OBVIOUS
  <1> HIDE DEF S, c, older
  <1>3. rest \in Seq(Address) /\ Len(rest) = c
    <2>1. \A k \in 1 .. c : older[k] \in 1 .. Len(known)
      BY <1>1, <1>2
    <2>2. rest \in [1 .. c -> Address]
      BY <2>1
    <2> QED
      BY <1>2, <2>2
  <1>4. all = Freshest(addrs, known)
    <2>1. DOMAIN older = 1 .. c
      BY <1>2
    <2> QED
      BY <2>1 DEF Freshest, S, older
  <1>5. /\ all \in Seq(Address)
        /\ Len(all) = Len(addrs) + c
        /\ \A i \in 1 .. Len(addrs) : all[i] = addrs[i]
        /\ \A k \in 1 .. c : all[Len(addrs) + k] = rest[k]
    <2> HIDE DEF rest
    <2> QED
      BY <1>3, Joined
  <1>d. Len(addrs) \in Nat /\ DOMAIN addrs = 1 .. Len(addrs) /\ DOMAIN all = 1 .. Len(all)
    <2> HIDE DEF rest
    <2> QED
      BY <1>3, Joined
  <1> HIDE DEF all
  <1>6. ASSUME NEW a, In(a, known)
        PROVE  In(a, all)
    <2>1. PICK i \in DOMAIN known : known[i] = a
      BY <1>6 DEF In
    <2>2. CASE In(a, addrs)
      <3>1. PICK j \in DOMAIN addrs : addrs[j] = a
        BY <2>2 DEF In
      <3>2. j \in 1 .. Len(all) /\ all[j] = a
        BY <1>2, <1>5, <1>d, <3>1
      <3> QED
        BY <1>d, <3>2 DEF In
    <2>3. CASE i \in S
      <3>1. PICK k \in 1 .. c : older[k] = i
        BY <1>2, <2>3
      <3>2. all[Len(addrs) + k] = a
        BY <1>5, <2>1, <3>1
      <3>3. Len(addrs) + k \in 1 .. Len(all)
        BY <1>2, <1>5, <1>d, <3>1
      <3> QED
        BY <1>d, <3>2, <3>3 DEF In
    <2> QED
      BY <1>s, <2>1, <2>2, <2>3
  <1>7. ASSUME all = <<>>, known # <<>>
        PROVE  FALSE
    <2>1. In(known[1], known)
      BY <1>7 DEF In
    <2>2. In(known[1], all)
      BY <1>6, <2>1
    <2> QED
      BY <1>7, <2>2 DEF In
  <1> QED
    BY <1>4, <1>5, <1>6, <1>7

(* The first address of a kind is one of the list, and of the kind.          *)
LEMMA FirstOfIsOne ==
    ASSUME NEW list \in Seq(Address), NEW S, \E i \in DOMAIN list : list[i] \in S
    PROVE  FirstOf(list, S) \in S /\ In(FirstOf(list, S), list)
  <1> DEFINE P == {i \in DOMAIN list : list[i] \in S}
  <1>1. P \in SUBSET Nat /\ P # {}
    OBVIOUS
  <1>2. PICK i \in P : \A j \in P : i <= j
    BY <1>1, Least
  <1>3. /\ i \in DOMAIN list /\ list[i] \in S
        /\ \A j \in 1 .. i - 1 : list[j] \notin S
    BY <1>2
  <1> DEFINE first == CHOOSE k \in DOMAIN list :
                        list[k] \in S /\ \A j \in 1 .. k - 1 : list[j] \notin S
  <1>4. first \in DOMAIN list /\ list[first] \in S
    BY <1>3
  <1>5. FirstOf(list, S) = list[first]
    BY DEF FirstOf
  <1> HIDE DEF first
  <1> QED
    BY <1>4, <1>5 DEF In

(* pick_address takes an address of the list, one that could be reached in   *)
(* one of the two passes if there is one that could in both.                 *)
LEMMA PicksReachable ==
    ASSUME NEW list \in Seq(Address), list # <<>>, NEW again
    PROVE  /\ In(PickAddress(list, again), list)
           /\ (\E a \in routes \cap again : In(a, list))
                 => PickAddress(list, again) \in routes \cup again
  <1> DEFINE has(S) == \E i \in DOMAIN list : list[i] \in S
  <1>1. \A S : has(S) => FirstOf(list, S) \in S /\ In(FirstOf(list, S), list)
    BY FirstOfIsOne
  <1>2. In(list[1], list)
    BY DEF In
  <1>3. (\E a \in routes \cap again : In(a, list)) => has(again)
    BY DEF In
  <1>4. PickAddress(list, again) =
          IF has(V4 \cap routes) THEN FirstOf(list, V4 \cap routes)
          ELSE IF has(again) THEN FirstOf(list, again)
          ELSE IF has(V4) THEN FirstOf(list, V4) ELSE list[1]
    BY DEF PickAddress
  <1>5. has(V4 \cap routes) => FirstOf(list, V4 \cap routes) \in routes
    BY <1>1
  <1> HIDE DEF has
  <1> QED
    BY <1>1, <1>2, <1>3, <1>4, <1>5

(* An address of a list of addresses is one. *)
LEMMA ListedIsAddress ==
    ASSUME NEW list \in Seq(Address), NEW a, In(a, list)
    PROVE  a \in Address
  BY DEF In

LEMMA EntryIsKnown ==
    ASSUME NEW e \in Entry
    PROVE  e # Unknown /\ e.addr \in Address
  <1>1. DOMAIN e = {"addr", "details"}
    BY DEF Entry
  <1>2. DOMAIN Unknown = {"addr"}
    BY DEF Unknown
  <1> QED
    BY <1>1, <1>2 DEF Entry

-----------------------------------------------------------------------------
(* Discovery: the invariant.                                               *)

LEMMA RecordIsList ==
    ASSUME NEW addrs \in Records
    PROVE  addrs \in Seq(Address)
  <1>1. PICK n \in 0 .. Longest : addrs \in [1 .. n -> Address]
    BY DEF Records
  <1> QED
    BY <1>1, RecordAssumption

(* While nothing is on its way that will have the list read again, the last  *)
(* answer read says what the daemon knows; it is still on its way, or it has *)
(* come, and the others are late.                                            *)
AnswersFollow ==
    deviceEvents + changes + listCalls = 0 =>
        \/ lists # <<>> /\ lists[Len(lists)] = [of |-> device, late |-> FALSE]
        \/ /\ \A i \in DOMAIN lists : lists[i].late
           /\ listedLate \/ listed = device

DeviceInv == DeviceTypes /\ ListedIsKnown /\ AnswersFollow

LEMMA DeviceInitInv == DeviceInit => DeviceInv
  <1> SUFFICES ASSUME DeviceInit
               PROVE  DeviceInv
    OBVIOUS
  <1>0. /\ announced \in Records /\ announced \in Seq(Address)
        /\ \/ device \in Entry /\ In(device.addr, announced)
           \/ device = Unknown /\ announced = <<>>
    BY RecordIsList DEF DeviceInit
  <1>1. DeviceTypes
    <2>1. \A X : <<>> \in Seq(X)
      OBVIOUS
    <2> DEFINE Listing == [of : Entry \cup {Unknown}, late : BOOLEAN]
    <2>2. lists \in Seq(Listing)
      BY <2>1 DEF DeviceInit
    <2>3. /\ listed \in Entry \cup {Unknown} /\ routes \subseteq Address
          /\ deviceEvents \in Nat /\ changes \in Nat /\ listCalls \in Nat
          /\ listening \in BOOLEAN
      BY DEF DeviceInit
    <2>4. listedLate \in BOOLEAN
      BY Zenon DEF DeviceInit
    <2> QED
      BY <1>0, <2>2, <2>3, <2>4 DEF DeviceTypes
  <1>2. ListedIsKnown
    <2>1. CASE device \in Entry /\ In(device.addr, announced)
      <3>1. device # Unknown
        BY <2>1, EntryIsKnown
      <3>2. announced # <<>>
        BY <2>1 DEF In
      <3> QED
        BY <2>1, <3>1, <3>2 DEF ListedIsKnown
    <2>2. CASE device = Unknown /\ announced = <<>>
      BY <2>2 DEF ListedIsKnown
    <2> QED
      BY <1>0, <2>1, <2>2
  <1>3. AnswersFollow
    <2>1. lists = <<>> /\ listed = Unknown
      BY DEF DeviceInit
    <2>2. listedLate \/ listed = device
      BY Zenon DEF DeviceInit
    <2> QED
      BY <2>1, <2>2 DEF AnswersFollow
  <1> QED
    BY <1>1, <1>2, <1>3 DEF DeviceInv

(* What a record does to the entry. *)
LEMMA Resolving ==
    ASSUME DeviceTypes, ListedIsKnown,
           NEW addrs \in Records, NEW details \in Details, TakeRecord(addrs, details)
    PROVE  /\ announced' \in Seq(Address)
           /\ announced' = <<>> => announced = <<>>
           /\ \/ /\ device' = device /\ deviceEvents' = deviceEvents
                 /\ announced' = <<>> /\ device = Unknown
              \/ /\ device' \in Entry /\ announced' # <<>>
                 /\ In(device'.addr, announced')
                 /\ (\E a \in routes \cap routes' : In(a, announced'))
                       => device'.addr \in routes \cup routes'
                 /\ device # Unknown /\ device.addr \in routes' => device'.addr \in routes'
                 /\ \/ device' = device /\ deviceEvents' = deviceEvents
                    \/ deviceEvents' = deviceEvents + 1
  <1>1. /\ announced' = Freshest(addrs, announced)
        /\ addrs \in Seq(Address) /\ announced \in Seq(Address)
    BY RecordIsList DEF TakeRecord, DeviceTypes
  <1>2. /\ announced' \in Seq(Address)
        /\ \A a : In(a, announced) => In(a, announced')
        /\ announced' = <<>> => announced = <<>>
    BY <1>1, FreshestKeepsAll
  <1>3. CASE announced' = <<>>
    BY <1>2, <1>3 DEF TakeRecord, ListedIsKnown
  <1>4. CASE announced' # <<>>
    <2>0. PICK again \in {routes, routes'} :
             LET new == [addr |-> Kept(PickAddress(announced', again)), details |-> details]
             IN  IF Changed(new) THEN device' = new /\ deviceEvents' = deviceEvents + 1
                 ELSE UNCHANGED <<device, deviceEvents>>
      BY <1>4 DEF TakeRecord
    <2> DEFINE pick == PickAddress(announced', again)
               addr == Kept(pick)
               new == [addr |-> addr, details |-> details]
    <2>1. /\ In(pick, announced')
          /\ (\E a \in routes \cap again : In(a, announced')) => pick \in routes \cup again
      BY <1>2, <1>4, PicksReachable
    <2>2. \/ addr = pick
          \/ /\ device # Unknown /\ addr = device.addr
             /\ device.addr \in routes'
      BY DEF Kept
    <2>3. device # Unknown /\ device.addr \in routes' => addr \in routes'
      BY DEF Kept
    <2> HIDE DEF addr, pick
    <2>4. /\ In(addr, announced')
          /\ (\E a \in routes \cap routes' : In(a, announced')) => addr \in routes \cup routes'
      BY <1>2, <2>1, <2>2 DEF ListedIsKnown
    <2>5. addr \in Address
      BY <1>2, <2>4, ListedIsAddress
    <2>6. new \in Entry /\ new.addr = addr
      BY <2>5 DEF Entry
    <2>7. \/ device' = new /\ deviceEvents' = deviceEvents + 1
          \/ device' = device /\ deviceEvents' = deviceEvents /\ device = new
      BY <2>0 DEF Changed, addr, pick
    <2> HIDE DEF new
    <2> QED
      BY <1>2, <1>4, <2>3, <2>4, <2>6, <2>7
  <1> QED
    BY <1>3, <1>4

LEMMA DeviceNextInv == DeviceInv /\ [DeviceNext]_deviceVars => DeviceInv'
  <1> SUFFICES ASSUME DeviceInv, [DeviceNext]_deviceVars
               PROVE  DeviceInv'
    OBVIOUS
  <1> USE DEF DeviceInv
  <1>1. CASE Resolved
    <2>1. PICK addrs \in Records, details \in Details : TakeRecord(addrs, details)
      BY <1>1 DEF Resolved
    <2>2. /\ UNCHANGED <<changes, listCalls, lists, listening, listed, listedLate>>
          /\ routes' \subseteq Address
      BY <2>1 DEF TakeRecord
    <2> DEFINE R == \/ /\ device' = device /\ deviceEvents' = deviceEvents
                       /\ announced' = <<>> /\ device = Unknown
                    \/ /\ device' \in Entry /\ announced' # <<>>
                       /\ In(device'.addr, announced')
                       /\ \/ device' = device /\ deviceEvents' = deviceEvents
                          \/ deviceEvents' = deviceEvents + 1
    <2>3. announced' \in Seq(Address) /\ R
      BY <2>1, Resolving
    <2>4. DeviceTypes'
      BY <2>2, <2>3 DEF DeviceTypes
    <2>5. ListedIsKnown'
      BY <2>3, EntryIsKnown DEF ListedIsKnown
    <2>6. AnswersFollow'
      <3>1. deviceEvents \in Nat /\ changes \in Nat /\ listCalls \in Nat
        BY DEF DeviceTypes
      <3>2. CASE deviceEvents' = deviceEvents + 1
        <4>1. deviceEvents' + changes' + listCalls' # 0
          BY <2>2, <3>1, <3>2
        <4> QED
          BY <4>1 DEF AnswersFollow
      <3>3. CASE device' = device /\ deviceEvents' = deviceEvents
        BY <2>2, <3>3 DEF AnswersFollow
      <3> QED
        BY <2>3, <3>2, <3>3
    <2> QED
      BY <2>4, <2>5, <2>6
  <1>2. CASE Removed
    <2>1. /\ announced' = <<>> /\ device' = Unknown
          /\ deviceEvents' = IF device = Unknown THEN deviceEvents ELSE deviceEvents + 1
          /\ UNCHANGED <<routes, changes, listCalls, lists, listening, listed, listedLate>>
      BY <1>2 DEF Removed
    <2>2. deviceEvents \in Nat /\ changes \in Nat /\ listCalls \in Nat
      BY DEF DeviceTypes
    <2>3. DeviceTypes'
      BY <2>1 DEF DeviceTypes
    <2>4. ListedIsKnown'
      BY <2>1 DEF ListedIsKnown
    <2>5. CASE device = Unknown
      BY <2>1, <2>3, <2>4, <2>5 DEF AnswersFollow
    <2>6. CASE device # Unknown
      <3>1. deviceEvents' + changes' + listCalls' # 0
        BY <2>1, <2>2, <2>6
      <3> QED
        BY <2>3, <2>4, <3>1 DEF AnswersFollow
    <2> QED
      BY <2>5, <2>6
  <1>3. CASE RoutesChange
    BY <1>3 DEF RoutesChange, DeviceTypes, ListedIsKnown, AnswersFollow, listVars
  <1>4. CASE ForwardDevices
    BY <1>4 DEF ForwardDevices, DeviceTypes, ListedIsKnown, AnswersFollow
  <1>r. CASE ProxyReady
    BY <1>r DEF ProxyReady, DeviceTypes, ListedIsKnown, AnswersFollow
  <1>5. CASE ChangeArrives
    <2>1. CASE listening
      BY <1>5, <2>1 DEF ChangeArrives, DeviceTypes, ListedIsKnown, AnswersFollow
    <2>2. CASE ~listening
      <3> DEFINE Listing == [of : Entry \cup {Unknown}, late : BOOLEAN]
                 n == Len(lists)
      <3>1. /\ lists' = AllLate /\ listedLate' = TRUE
            /\ UNCHANGED <<announced, device, routes, deviceEvents, listCalls,
                           listening, listed>>
            /\ changes > 0 /\ changes' = changes - 1
        BY <1>5, <2>2 DEF ChangeArrives
      <3>l. lists \in Seq(Listing)
        BY DEF DeviceTypes
      <3>2. /\ n \in Nat /\ DOMAIN lists = 1 .. n
            /\ \A i \in 1 .. n : lists[i] \in Listing
        <4> HIDE DEF Listing
        <4> QED
          BY <3>l
      <3>3. /\ DOMAIN lists' = 1 .. n
            /\ \A i \in 1 .. n : lists'[i] = [lists[i] EXCEPT !.late = TRUE]
        BY <3>1, <3>2 DEF AllLate
      <3>4. \A i \in 1 .. n : lists'[i] \in Listing /\ lists'[i].late
        <4> TAKE i \in 1 .. n
        <4>1. lists[i] \in Listing /\ lists'[i] = [lists[i] EXCEPT !.late = TRUE]
          BY <3>2, <3>3
        <4> QED
          BY <4>1
      <3>5. lists' \in Seq(Listing)
        <4> HIDE DEF Listing
        <4>1. lists' = [i \in 1 .. n |-> lists'[i]]
          BY <3>1, <3>2 DEF AllLate
        <4> QED
          BY <3>2, <3>4, <4>1
      <3>6. DeviceTypes'
        BY <3>1, <3>5 DEF DeviceTypes
      <3>7. AnswersFollow'
        BY <3>1, <3>3, <3>4 DEF AnswersFollow
      <3> QED
        BY <3>1, <3>6, <3>7 DEF ListedIsKnown
    <2> QED
      BY <2>1, <2>2
  <1>6. CASE ShowMenu
    BY <1>6 DEF ShowMenu, DeviceTypes, ListedIsKnown, AnswersFollow
  <1>7. CASE ListDevices
    <2> DEFINE item == [of |-> device, late |-> FALSE]
    <2>1. item \in [of : Entry \cup {Unknown}, late : BOOLEAN]
      BY DEF DeviceTypes
    <2>2. lists' = Append(lists, item) /\ lists' # <<>> /\ lists'[Len(lists')] = item
      BY <1>7, <2>1 DEF ListDevices, DeviceTypes
    <2>3. UNCHANGED <<announced, device, routes, deviceEvents, changes, listening,
                      listed, listedLate>>
      BY <1>7 DEF ListDevices
    <2>4. DeviceTypes'
      BY <1>7, <2>1, <2>2, <2>3 DEF DeviceTypes, ListDevices
    <2>5. AnswersFollow'
      BY <2>2, <2>3 DEF AnswersFollow
    <2> QED
      BY <2>3, <2>4, <2>5 DEF ListedIsKnown
  <1>8. CASE AnswerArrives
    <2> DEFINE n == Len(lists)
               Listing == [of : Entry \cup {Unknown}, late : BOOLEAN]
    <2>1. PICK i \in DOMAIN lists :
              /\ lists' = [j \in 1 .. n - 1 |->
                             IF j < i THEN [lists[j] EXCEPT !.late = TRUE] ELSE lists[j + 1]]
              /\ listed' = lists[i].of
              /\ listedLate' = lists[i].late
              /\ UNCHANGED <<announced, device, routes, deviceEvents, changes, listCalls,
                             listening>>
      BY <1>8 DEF AnswerArrives
    <2>l. lists \in Seq(Listing)
      BY DEF DeviceTypes
    <2>2. /\ n \in Nat /\ i \in 1 .. n /\ lists \in Seq(Listing)
          /\ \A j \in 1 .. n : lists[j] \in Listing
      <3> HIDE DEF Listing
      <3> QED
        BY <2>l
    <2>3. \A j \in 1 .. n - 1 :
             /\ lists'[j] = IF j < i THEN [lists[j] EXCEPT !.late = TRUE] ELSE lists[j + 1]
             /\ lists'[j] \in Listing
      <3> TAKE j \in 1 .. n - 1
      <3>1. j \in 1 .. n /\ j + 1 \in 1 .. n
        BY <2>2
      <3>2. lists'[j] = IF j < i THEN [lists[j] EXCEPT !.late = TRUE] ELSE lists[j + 1]
        BY <2>1
      <3>3. [lists[j] EXCEPT !.late = TRUE] \in Listing
        BY <2>2, <3>1
      <3> HIDE DEF Listing
      <3> QED
        BY <2>2, <3>1, <3>2, <3>3
    <2>4. lists' \in Seq(Listing) /\ Len(lists') = n - 1 /\ DOMAIN lists' = 1 .. n - 1
      BY <2>1, <2>2, <2>3
    <2>5. DeviceTypes'
      BY <2>1, <2>2, <2>4 DEF DeviceTypes
    <2>6. AnswersFollow'
      <3> SUFFICES ASSUME deviceEvents + changes + listCalls = 0
                   PROVE  \/ lists' # <<>> /\ lists'[Len(lists')] = [of |-> device, late |-> FALSE]
                          \/ /\ \A j \in DOMAIN lists' : lists'[j].late
                             /\ listedLate' \/ listed' = device
        BY <2>1 DEF AnswersFollow
      <3>1. CASE lists[n] = [of |-> device, late |-> FALSE] /\ i = n
        <4>1. listed' = device
          BY <2>1, <3>1
        <4>2. ASSUME NEW j \in 1 .. n - 1
              PROVE  lists'[j].late
          <5>1. j \in 1 .. n /\ j < i
            BY <2>2, <3>1
          <5>2. lists'[j] = [lists[j] EXCEPT !.late = TRUE] /\ lists[j] \in Listing
            BY <2>2, <2>3, <5>1
          <5> QED
            BY <5>2
        <4> QED
          BY <2>4, <4>1, <4>2
      <3>2. CASE lists[n] = [of |-> device, late |-> FALSE] /\ i # n
        <4>1. n - 1 \in 1 .. n - 1 /\ ~(n - 1 < i)
          BY <2>2, <3>2
        <4>2. lists'[n - 1] = lists[n]
          <5>1. lists'[n - 1] = lists[n - 1 + 1]
            BY <2>3, <4>1
          <5> QED
            BY <2>2, <5>1
        <4> QED
          BY <2>2, <2>4, <3>2, <4>1, <4>2
      <3>3. CASE \A j \in 1 .. n : lists[j].late
        <4>1. listedLate'
          BY <2>1, <2>2, <3>3
        <4>2. ASSUME NEW j \in 1 .. n - 1
              PROVE  lists'[j].late
          <5>1. j \in 1 .. n /\ j + 1 \in 1 .. n
            BY <2>2
          <5>2. /\ lists'[j] = IF j < i THEN [lists[j] EXCEPT !.late = TRUE] ELSE lists[j + 1]
                /\ lists[j] \in Listing
            BY <2>2, <2>3, <5>1
          <5> QED
            BY <3>3, <5>1, <5>2
        <4> QED
          BY <2>4, <4>1, <4>2
      <3> QED
        BY <2>2, <3>1, <3>2, <3>3 DEF AnswersFollow
    <2> QED
      BY <2>1, <2>5, <2>6 DEF ListedIsKnown
  <1>e. CASE DaemonEnds
    <2> DEFINE Listing == [of : Entry \cup {Unknown}, late : BOOLEAN]
               n == Len(lists)
    <2>1. /\ announced' = <<>> /\ device' = Unknown /\ deviceEvents' = 0
          /\ listedLate' = (listed # Unknown)
          /\ UNCHANGED <<routes, changes, listening, listed>>
      BY <1>e DEF DaemonEnds
    <2>2. PICK failed \in 0 .. listCalls, written \in SUBSET (DOMAIN lists) :
            /\ listCalls' = listCalls - failed
            /\ lists' = [i \in DOMAIN lists |->
                            [of |-> IF i \in written THEN lists[i].of ELSE Unknown,
                             late |-> TRUE]]
                          \o [i \in 1 .. failed |-> [of |-> Unknown, late |-> FALSE]]
      BY <1>e DEF DaemonEnds
    <2> DEFINE old == [i \in 1 .. n |->
                         [of |-> IF i \in written THEN lists[i].of ELSE Unknown,
                          late |-> TRUE]]
               none == [of |-> Unknown, late |-> FALSE]
               new == [i \in 1 .. failed |-> none]
    <2>l. lists \in Seq(Listing) /\ listCalls \in Nat /\ failed \in Nat
      BY DEF DeviceTypes
    <2>3. /\ n \in Nat /\ DOMAIN lists = 1 .. n
          /\ \A i \in 1 .. n : lists[i] \in Listing
      <3> HIDE DEF Listing
      <3> QED
        BY <2>l
    <2>4. old \in Seq(Listing) /\ Len(old) = n /\ \A i \in 1 .. n : old[i].late
      <3>1. \A i \in 1 .. n : old[i] \in Listing /\ old[i].late
        <4> TAKE i \in 1 .. n
        <4>1. lists[i] \in Listing
          BY <2>3
        <4>2. old[i] = [of |-> IF i \in written THEN lists[i].of ELSE Unknown, late |-> TRUE]
          OBVIOUS
        <4> QED
          BY <4>1, <4>2
      <3>2. old = [i \in 1 .. n |-> old[i]]
        OBVIOUS
      <3> HIDE DEF Listing, old
      <3> QED
        BY <2>3, <3>1, <3>2
    <2>5. new \in Seq(Listing) /\ Len(new) = failed /\ \A i \in 1 .. failed : new[i] = none
      <3>1. none \in Listing
        OBVIOUS
      <3> HIDE DEF Listing, none
      <3> QED
        BY <2>l, <3>1
    <2>6. lists' = old \o new
      BY <2>2, <2>3
    <2> HIDE DEF old, new
    <2>7. /\ lists' \in Seq(Listing)
          /\ Len(lists') = n + failed
          /\ DOMAIN lists' = 1 .. n + failed
          /\ \A i \in 1 .. n : lists'[i] = old[i]
          /\ \A k \in 1 .. failed : lists'[n + k] = new[k]
      <3> HIDE DEF Listing
      <3>1. old \in Seq(Listing) /\ new \in Seq(Listing)
        BY <2>4, <2>5
      <3>2. Len(old) = n /\ Len(new) = failed
        BY <2>4, <2>5
      <3>3. /\ old \o new \in Seq(Listing)
            /\ Len(old \o new) = Len(old) + Len(new)
            /\ DOMAIN (old \o new) = 1 .. Len(old) + Len(new)
            /\ \A i \in 1 .. Len(old) : (old \o new)[i] = old[i]
            /\ \A k \in 1 .. Len(new) : (old \o new)[Len(old) + k] = new[k]
        BY <3>1, Joined
      <3> HIDE DEF n
      <3> QED
        BY <2>6, <3>2, <3>3
    <2>8. listCalls' \in Nat /\ listedLate' \in BOOLEAN
      <3>1. listCalls' \in Nat
        BY <2>2, <2>l
      <3>2. listedLate' \in BOOLEAN
        BY Zenon, <2>1
      <3> QED
        BY <3>1, <3>2
    <2>9. DeviceTypes'
      BY <2>1, <2>7, <2>8 DEF DeviceTypes
    <2>10. AnswersFollow'
      <3>1. CASE failed = 0
        <4>1. \A i \in DOMAIN lists' : lists'[i].late
          BY <2>3, <2>4, <2>7, <3>1
        <4>2. listedLate' \/ listed' = device'
          BY <2>1
        <4> QED
          BY <4>1, <4>2 DEF AnswersFollow
      <3>2. CASE failed # 0
        <4>1. failed \in 1 .. failed
          BY <2>l, <3>2
        <4>2. lists'[Len(lists')] = none
          BY <2>5, <2>7, <4>1
        <4>3. lists' # <<>>
          BY <2>3, <2>7, <2>l, <3>2
        <4> QED
          BY <2>1, <4>2, <4>3 DEF AnswersFollow
      <3> QED
        BY <3>1, <3>2
    <2>11. ListedIsKnown'
      BY <2>1 DEF ListedIsKnown
    <2> QED
      BY <2>9, <2>10, <2>11
  <1>9. CASE UNCHANGED deviceVars
    BY <1>9 DEF deviceVars, listVars, DeviceTypes, ListedIsKnown, AnswersFollow
  <1> QED
    BY <1>1, <1>2, <1>3, <1>4, <1>r, <1>5, <1>6, <1>7, <1>8, <1>e, <1>9 DEF DeviceNext

LEMMA DeviceInvariant == DeviceSpec => []DeviceInv
  BY DeviceInitInv, DeviceNextInv, PTL DEF DeviceSpec

(* Every variable of Discovery has its type. *)
THEOREM DeviceTyped == DeviceSpec => []DeviceTypes
  <1>1. DeviceInv => DeviceTypes
    BY DEF DeviceInv
  <1> QED
    BY <1>1, DeviceInvariant, PTL

(* A device is listed from its first address to its goodbye, at an address   *)
(* it has announced.                                                         *)
THEOREM DeviceKnown == DeviceSpec => []ListedIsKnown
  <1>1. DeviceInv => ListedIsKnown
    BY DEF DeviceInv
  <1> QED
    BY <1>1, DeviceInvariant, PTL

(* Once nothing is under way, the menu shows the device as the daemon knows  *)
(* it, whatever was announced, lost, overtaken or ended, unless its list is  *)
(* late: not asked for since the extension was enabled, read before a signal *)
(* that nobody heard or before an answer that has come, or of a daemon that  *)
(* has gone.                                                                 *)
THEOREM DeviceMenuSettles == DeviceSpec => []MenuSettles
  <1>1. DeviceInv => MenuSettles
    <2> SUFFICES ASSUME DeviceInv, UnderWay = 0, ~listedLate
                 PROVE  listed = device
      BY DEF MenuSettles
    <2>1. deviceEvents + changes + listCalls = 0 /\ Len(lists) = 0
      BY DEF DeviceInv, DeviceTypes, UnderWay
    <2>2. lists = <<>>
      BY <2>1 DEF DeviceInv, DeviceTypes
    <2> QED
      BY <2>1, <2>2 DEF DeviceInv, AnswersFollow
  <1> QED
    BY <1>1, DeviceInvariant, PTL

(* Which steps touch what is known and listed. *)
LEMMA OnlyRecordsTouch ==
    ASSUME DeviceNext
    PROVE  \/ Resolved
           \/ announced' = <<>> /\ device' = Unknown
           \/ UNCHANGED <<announced, device>>
  BY DEF DeviceNext, Removed, RoutesChange, ForwardDevices, ProxyReady, ChangeArrives,
         ShowMenu, ListDevices, AnswerArrives, DaemonEnds

(* After a record, a device with an address that can be reached all along is *)
(* listed at an address that could be while the record was handled.          *)
THEOREM DeviceReached == DeviceSpec => ReachesIfAny
  <1>1. DeviceInv /\ [DeviceNext]_deviceVars =>
          [(announced' # announced \/ device' # device)
             /\ (\E a \in routes \cap routes' : In(a, announced'))
             => device'.addr \in routes \cup routes']_deviceVars
    <2> SUFFICES ASSUME DeviceInv, DeviceNext, announced' # announced \/ device' # device,
                        \E a \in routes \cap routes' : In(a, announced')
                 PROVE  device'.addr \in routes \cup routes'
      OBVIOUS
    <2>1. announced' # <<>>
      BY DEF In
    <2>2. Resolved
      BY <2>1, OnlyRecordsTouch
    <2> QED
      BY <2>1, <2>2, Resolving DEF Resolved, DeviceInv
  <1> QED
    BY <1>1, DeviceInvariant, PTL DEF DeviceSpec, ReachesIfAny

(* An entry whose address can be reached is never given one that cannot,     *)
(* even by a record whose address was picked before the routes changed.      *)
THEOREM DeviceStaysReached == DeviceSpec => NeverDowngrades
  <1>1. DeviceInv /\ [DeviceNext]_deviceVars =>
          [device # Unknown /\ device' # Unknown /\ device' # device
             /\ device.addr \in routes' => device'.addr \in routes']_deviceVars
    <2> SUFFICES ASSUME DeviceInv, DeviceNext, device # Unknown, device' # Unknown,
                        device' # device, device.addr \in routes'
                 PROVE  device'.addr \in routes'
      OBVIOUS
    <2>1. Resolved
      BY OnlyRecordsTouch
    <2> QED
      BY <2>1, Resolving DEF Resolved, DeviceInv
  <1> QED
    BY <1>1, DeviceInvariant, PTL DEF DeviceSpec, NeverDowngrades

=============================================================================
