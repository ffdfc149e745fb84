---------------------------- MODULE PrefilterProofs ----------------------------
(***************************************************************************)
(* Proofs about Prefilter: whatever the tenant writes, in any vocabulary    *)
(* and with windows of any size, hazards are heard and routine texts stay  *)
(* quiet.                                                                  *)
(***************************************************************************)
EXTENDS Prefilter, TLAPS

-----------------------------------------------------------------------------
(* Phrases.                                                                *)

\* A phrase of one word stands where one of its spellings does.
LEMMA OneWordSpan ==
    ASSUME NEW t \in Seq(Words), NEW S, NEW s \in Spans(t, <<S>>)
    PROVE  /\ s[1] \in 1..Len(t) /\ s[2] = s[1] /\ s = <<s[1], s[1]>>
           /\ t[s[1]] \in S
  <1>1. s \in (1..Len(t)) \X (1..Len(t)) /\ s[2] = s[1] + Len(<<S>>) - 1
    BY DEF Spans
  <1>2. \A k \in 1..Len(<<S>>) : t[s[1] + k - 1] \in <<S>>[k]
    BY DEF Spans
  <1>3. Len(<<S>>) = 1 /\ 1 \in 1..1 /\ <<S>>[1] = S
    OBVIOUS
  <1>4. t[s[1] + 1 - 1] \in S
    BY <1>2, <1>3
  <1>5. s[1] + 1 - 1 = s[1] /\ s[2] = s[1]
    BY <1>1, <1>3
  <1> QED
    BY <1>1, <1>4, <1>5

\* A phrase of two words stands on two neighbours.
LEMMA TwoWordsSpan ==
    ASSUME NEW t \in Seq(Words), NEW S, NEW T, NEW s \in Spans(t, <<S, T>>)
    PROVE  /\ s[1] \in 1..Len(t) /\ s[2] \in 1..Len(t) /\ s[2] = s[1] + 1
           /\ s = <<s[1], s[1] + 1>>
           /\ t[s[1]] \in S /\ t[s[2]] \in T
  <1>1. s \in (1..Len(t)) \X (1..Len(t)) /\ s[2] = s[1] + Len(<<S, T>>) - 1
    BY DEF Spans
  <1>2. \A k \in 1..Len(<<S, T>>) : t[s[1] + k - 1] \in <<S, T>>[k]
    BY DEF Spans
  <1>3. Len(<<S, T>>) = 2 /\ 1 \in 1..2 /\ 2 \in 1..2 /\ <<S, T>>[1] = S /\ <<S, T>>[2] = T
    OBVIOUS
  <1>4. t[s[1] + 1 - 1] \in S /\ t[s[1] + 2 - 1] \in T
    BY <1>2, <1>3
  <1>5. s[1] + 1 - 1 = s[1] /\ s[2] = s[1] + 1 /\ s[1] + 2 - 1 = s[2]
    BY <1>1, <1>3
  <1> QED
    BY <1>1, <1>4, <1>5

\* Where the spellings are fewer, the spans are.
LEMMA TwoWordsMono ==
    ASSUME NEW t \in Seq(Words), NEW S, NEW T, NEW R, S \subseteq R
    PROVE  Spans(t, <<S, T>>) \subseteq Spans(t, <<R, T>>)
  <1> SUFFICES ASSUME NEW s \in Spans(t, <<S, T>>)
               PROVE  s \in Spans(t, <<R, T>>)
    OBVIOUS
  <1>1. /\ s \in (1..Len(t)) \X (1..Len(t))
        /\ s[2] = s[1] + Len(<<S, T>>) - 1
        /\ \A k \in 1..Len(<<S, T>>) : t[s[1] + k - 1] \in <<S, T>>[k]
    BY DEF Spans
  <1>2. Len(<<S, T>>) = Len(<<R, T>>) /\ Len(<<R, T>>) = 2
    OBVIOUS
  <1>3. \A k \in 1..2 : <<S, T>>[k] \subseteq <<R, T>>[k]
    OBVIOUS
  <1> QED
    BY <1>1, <1>2, <1>3 DEF Spans

\* A phrase with a word the text does not have stands nowhere.
LEMMA Unsaid ==
    ASSUME NEW t \in Seq(Words), NEW phrase, Len(phrase) \in Nat,
           NEW k \in 1..Len(phrase),
           \A i \in 1..Len(t) : t[i] \notin phrase[k]
    PROVE  Spans(t, phrase) = {}
  <1> SUFFICES ASSUME NEW s \in Spans(t, phrase) PROVE FALSE
    OBVIOUS
  <1>1. /\ s[1] \in 1..Len(t) /\ s[2] \in 1..Len(t)
        /\ s[2] = s[1] + Len(phrase) - 1
        /\ t[s[1] + k - 1] \in phrase[k]
    BY DEF Spans
  <1>2. s[1] + k - 1 \in 1..Len(t)
    BY <1>1
  <1> QED
    BY <1>1, <1>2

LEMMA UnsaidOne ==
    ASSUME NEW t \in Seq(Words), NEW S, \A i \in 1..Len(t) : t[i] \notin S
    PROVE  Spans(t, <<S>>) = {}
  <1>1. Len(<<S>>) = 1 /\ <<S>>[1] = S /\ 1 \in 1..1
    OBVIOUS
  <1> QED
    BY <1>1, Unsaid

LEMMA UnsaidTwo ==
    ASSUME NEW t \in Seq(Words), NEW S, NEW T,
           (\A i \in 1..Len(t) : t[i] \notin S) \/ (\A i \in 1..Len(t) : t[i] \notin T)
    PROVE  Spans(t, <<S, T>>) = {}
  <1>1. Len(<<S, T>>) = 2 /\ <<S, T>>[1] = S /\ <<S, T>>[2] = T /\ 1 \in 1..2 /\ 2 \in 1..2
    OBVIOUS
  <1>2. CASE \A i \in 1..Len(t) : t[i] \notin S
    BY <1>1, <1>2, Unsaid
  <1>3. CASE \A i \in 1..Len(t) : t[i] \notin T
    BY <1>1, <1>3, Unsaid
  <1> QED
    BY <1>2, <1>3

-----------------------------------------------------------------------------
(* Hazards are heard.                                                      *)

LEMMA Heard ==
    ASSUME NEW t, NEW g \in HardTriggers, NEW s \in Slots(t, g),
           ~Suppressed(t, [trigger |-> g, span |-> s])
    PROVE  g.category \in Fired(t)
  <1> DEFINE slot == [trigger |-> g, span |-> s]
  <1>1. slot \in HitSlots(t)
    BY DEF HitSlots
  <1>2. slot.trigger = g
    OBVIOUS
  <1> HIDE DEF slot
  <1> QED
    BY <1>1, <1>2 DEF Fired, slot

\* The invariant of the module's documentation, for every text: what stands
\* outside the guarded phrases cannot be silenced.
LEMMA EveryAnchorHeard ==
    ASSUME NEW t
    PROVE  AnchorsHeard(t)
  <1> SUFFICES ASSUME NEW g \in HardTriggers, NEW s \in Slots(t, g),
                      \A h \in HardGuards : \A c \in Spans(t, h.core) : ~Overlap(s, c)
               PROVE  g.category \in Fired(t)
    BY DEF AnchorsHeard
  <1> DEFINE slot == [trigger |-> g, span |-> s]
  <1>1. slot.span = s
    OBVIOUS
  <1>2. Activated(t) \subseteq HardGuards
    BY DEF Activated
  <1>3. \A h \in Activated(t) : \A c \in Cores(t, h) : ~Overlap(slot.span, c)
    BY <1>1, <1>2 DEF Cores
  <1> HIDE DEF slot
  <1>4. ~Suppressed(t, slot)
    BY <1>3 DEF Suppressed
  <1> QED
    BY <1>4, Heard DEF slot

\* Said in this order, an alarm and what says that it goes on are a slot that
\* no guard silences.
LEMMA GoingOnHeard ==
    ASSUME NEW t, NEW category, NEW first, NEW then,
           Unsuppressible(Gapped(category, first, Gap, then)) \in HardTriggers,
           NEW a \in Spans(t, first), NEW o \in Spans(t, then), Follows(a, o, Gap)
    PROVE  category \in Fired(t)
  <1> DEFINE g == Unsuppressible(Gapped(category, first, Gap, then))
             s == <<a[1], o[2]>>
             slot == [trigger |-> g, span |-> s]
  <1>1. /\ g.category = category /\ g.kind = "gapped" /\ g.anchor = first
        /\ g.other = then /\ g.within = Gap /\ g.suppressible = FALSE
    BY DEF Unsuppressible, Gapped, Trigger
  <1>2. slot.trigger = g
    OBVIOUS
  <1>3. g \in HardTriggers
    OBVIOUS
  <1> HIDE DEF g
  <1>4. <<a, o>> \in {p \in Spans(t, g.anchor) \X Spans(t, g.other) : Follows(p[1], p[2], g.within)}
    BY <1>1
  <1>5. Slots(t, g) =
          {<<p[1][1], p[2][2]>> : p \in {p \in Spans(t, g.anchor) \X Spans(t, g.other) :
                                           Follows(p[1], p[2], g.within)}}
    BY <1>1 DEF Slots
  <1>6. s \in Slots(t, g)
    BY <1>4, <1>5
  <1> HIDE DEF s
  <1>7. ~Suppressed(t, slot)
    BY <1>1, <1>2 DEF Suppressed
  <1> QED
    BY <1>1, <1>3, <1>6, <1>7, Heard

LEMMA ContinuousHeard ==
    ASSUME NEW t \in Seq(Words), NEW category, NEW O,
           ContinuousAlarm(category, O) \subseteq HardTriggers,
           NEW of \in O, NEW a \in Spans(t, Alarm({of})), NEW o \in Spans(t, Ongoing), Within(a, o, Gap)
    PROVE  HardHit(t)
  <1>1. a \in Spans(t, Alarm(O))
    BY TwoWordsMono, {of} \subseteq O DEF Alarm
  <1>2. CASE Follows(a, o, Gap)
    <2>1. Unsuppressible(Gapped(category, Alarm(O), Gap, Ongoing)) \in HardTriggers
      BY DEF ContinuousAlarm
    <2> QED
      BY <1>1, <1>2, <2>1, GoingOnHeard DEF HardHit
  <1>3. CASE Follows(o, a, Gap)
    <2>1. Unsuppressible(Gapped(category, Ongoing, Gap, Alarm(O))) \in HardTriggers
      BY DEF ContinuousAlarm
    <2> QED
      BY <1>1, <1>3, <2>1, GoingOnHeard DEF HardHit
  <1> QED
    BY <1>2, <1>3 DEF Within

\* An alarm that is said to go on is an emergency in every text, in either
\* order and with any battery.
LEMMA EveryAlarmHeard ==
    ASSUME NEW t \in Seq(Words)
    PROVE  AlarmsHeard(t)
  <1>1. /\ ContinuousAlarm("fire", {"smoke"}) \subseteq HardTriggers
        /\ ContinuousAlarm("fire", {"fire"}) \subseteq HardTriggers
        /\ ContinuousAlarm("gas_co", {"co", "monoxide"}) \subseteq HardTriggers
    BY DEF HardTriggers, FireTriggers, GasTriggers
  <1> SUFFICES ASSUME NEW of \in {"smoke", "fire", "co", "monoxide"},
                      NEW a \in Spans(t, Alarm({of})), NEW o \in Spans(t, Ongoing), Within(a, o, Gap)
               PROVE  HardHit(t)
    BY DEF AlarmsHeard
  <1>2. CASE of = "smoke"
    BY <1>1, <1>2, of \in {"smoke"}, ContinuousHeard
  <1>3. CASE of = "fire"
    BY <1>1, <1>3, of \in {"fire"}, ContinuousHeard
  <1>4. CASE of \in {"co", "monoxide"}
    BY <1>1, <1>4, ContinuousHeard
  <1> QED
    BY <1>2, <1>3, <1>4

-----------------------------------------------------------------------------
(* Routine texts stay quiet.                                               *)

LEMMA SpanBounds ==
    ASSUME NEW t \in Seq(Words), NEW phrase, Len(phrase) \in Nat \ {0}, NEW s \in Spans(t, phrase)
    PROVE  s[1] \in Nat /\ s[2] \in Nat /\ s[1] <= s[2]
  BY DEF Spans

\* Without its anchor, or without the other half it needs, a trigger has no slot.
LEMMA NoSlot ==
    ASSUME NEW t, NEW category, NEW kind \in {"simple", "gapped", "proximity"},
           NEW anchor, NEW other, NEW within,
           Spans(t, anchor) = {} \/ (kind # "simple" /\ Spans(t, other) = {})
    PROVE  /\ Slots(t, Trigger(category, kind, anchor, other, within)) = {}
           /\ Slots(t, Unsuppressible(Trigger(category, kind, anchor, other, within))) = {}
  <1>1. ASSUME NEW g, g.kind = kind, g.anchor = anchor, g.other = other
        PROVE  Slots(t, g) = {}
    <2>1. CASE kind = "simple"
      BY <1>1, <2>1 DEF Slots
    <2>2. CASE kind = "gapped"
      BY <1>1, <2>2 DEF Slots
    <2>3. CASE kind = "proximity"
      BY <1>1, <2>3 DEF Slots
    <2> QED
      BY <2>1, <2>2, <2>3
  <1> DEFINE g == Trigger(category, kind, anchor, other, within)
             h == Unsuppressible(Trigger(category, kind, anchor, other, within))
  <1>2. g.kind = kind /\ g.anchor = anchor /\ g.other = other
    BY DEF Trigger
  <1>3. h.kind = kind /\ h.anchor = anchor /\ h.other = other
    BY DEF Trigger, Unsuppressible
  <1> HIDE DEF g, h
  <1>4. Slots(t, g) = {} /\ Slots(t, h) = {}
    BY <1>1, <1>2, <1>3
  <1> QED
    BY <1>4 DEF g, h

\* What a guard that activates does to an anchor inside its phrase.
LEMMA Silenced ==
    ASSUME NEW t, NEW g, NEW s, NEW h \in Activated(t), NEW c \in Spans(t, h.core),
           g.suppressible, h.protects = g.category, Overlap(s, c)
    PROVE  Suppressed(t, [trigger |-> g, span |-> s])
  <1> DEFINE slot == [trigger |-> g, span |-> s]
  <1>1. slot.trigger = g /\ slot.span = s
    OBVIOUS
  <1>2. c \in Cores(t, h)
    BY DEF Cores
  <1> HIDE DEF slot
  <1>3. Suppressed(t, slot)
    BY <1>1, <1>2 DEF Suppressed
  <1> QED
    BY <1>3 DEF slot

\* Of all triggers only two find their words in a routine text.
LEMMA RoutineSlots ==
    ASSUME NEW t \in Seq(Words), \A i \in 1..Len(t) : t[i] \in RoutineWords,
           NEW g \in HardTriggers, Slots(t, g) # {}
    PROVE  g \in {Simple("fire", <<{"fire"}>>), Simple("gas_co", Alarm({"co"}))}
  <1> DEFINE Silent(S) == \A i \in 1..Len(t) : t[i] \notin S
  <1>2. /\ Silent({"flames"}) /\ Silent({"burning"}) /\ Silent({"smell", "everywhere"})
        /\ Silent({"sounding", "blaring"}) /\ Silent({"sounding"}) /\ Silent({"gas"})
        /\ Silent({"monoxide"}) /\ Silent({"flood"}) /\ Silent({"burst"}) /\ Silent({"pipe"})
        /\ Silent({"water"}) /\ Silent({"intruder"}) /\ Silent({"ambulance"}) /\ Silent({"hard"})
        /\ Silent({"stuck"}) /\ Silent({"elevator"})
    BY DEF RoutineWords, SoftPatterns
  <1> HIDE DEF Silent
  <1>3. \A S : Silent(S) => Spans(t, <<S>>) = {}
    BY UnsaidOne DEF Silent
  <1>4. \A S, T : Silent(S) \/ Silent(T) => Spans(t, <<S, T>>) = {}
    BY UnsaidTwo DEF Silent
  <1>5. \A category, of : \A a \in ContinuousAlarm(category, of) : Slots(t, a) = {}
    <2> TAKE category, of
    <2>1. Spans(t, Ongoing) = {}
      BY <1>2, <1>3 DEF Ongoing
    <2>2. Slots(t, Unsuppressible(Gapped(category, Alarm(of), Gap, Ongoing))) = {}
      BY <2>1, NoSlot DEF Gapped
    <2>3. Slots(t, Unsuppressible(Gapped(category, Ongoing, Gap, Alarm(of)))) = {}
      BY <2>1, NoSlot DEF Gapped
    <2> QED
      BY <2>2, <2>3 DEF ContinuousAlarm
  <1>6. CASE g \in FireTriggers
    <2>1. Slots(t, Simple("fire", <<{"flames"}>>)) = {}
      BY <1>2, <1>3, NoSlot DEF Simple
    <2>2. Slots(t, Simple("fire", <<{"burning"}, {"smell"}>>)) = {}
      BY <1>2, <1>4, NoSlot DEF Simple
    <2>3. Slots(t, Proximity("fire", <<{"smoke"}>>, <<{"smell", "everywhere"}>>)) = {}
      BY <1>2, <1>3, NoSlot DEF Proximity
    <2> QED
      BY <1>5, <1>6, <2>1, <2>2, <2>3 DEF FireTriggers
  <1>7. CASE g \in GasTriggers
    <2>1. Slots(t, Proximity("gas_co", <<{"gas"}>>, <<{"smell", "leak"}>>)) = {}
      BY <1>2, <1>3, NoSlot DEF Proximity
    <2>2. Slots(t, Proximity("gas_co", <<{"leak"}>>, <<{"gas"}>>)) = {}
      BY <1>2, <1>3, NoSlot DEF Proximity
    <2>3. Slots(t, Simple("gas_co", <<{"monoxide"}>>)) = {}
      BY <1>2, <1>3, NoSlot DEF Simple
    <2>4. Slots(t, Unsuppressible(Simple("gas_co", <<{"alarm"}, {"sounding"}>>))) = {}
      BY <1>2, <1>4, NoSlot DEF Simple
    <2> QED
      BY <1>5, <1>7, <2>1, <2>2, <2>3, <2>4 DEF GasTriggers
  <1>8. CASE g \in WaterTriggers
    <2>1. Slots(t, Simple("water", <<{"flood"}>>)) = {}
      BY <1>2, <1>3, NoSlot DEF Simple
    <2>2. Slots(t, Simple("water", <<{"burst"}, {"pipe"}>>)) = {}
      BY <1>2, <1>4, NoSlot DEF Simple
    <2>3. Slots(t, Gapped("water", <<{"pipe"}>>, Reach, <<{"burst"}>>)) = {}
      BY <1>2, <1>3, NoSlot DEF Gapped
    <2>4. Slots(t, Proximity("water", <<{"water"}>>, <<{"gushing", "outlet"}>>)) = {}
      BY <1>2, <1>3, NoSlot DEF Proximity
    <2> QED
      BY <1>8, <2>1, <2>2, <2>3, <2>4 DEF WaterTriggers
  <1>9. CASE g \in SecurityTriggers
    <2>1. Slots(t, Simple("security", <<{"intruder"}>>)) = {}
      BY <1>2, <1>3, NoSlot DEF Simple
    <2> QED
      BY <1>9, <2>1 DEF SecurityTriggers
  <1>10. CASE g \in PersonTriggers
    <2>1. Slots(t, Simple("person", <<{"ambulance"}>>)) = {}
      BY <1>2, <1>3, NoSlot DEF Simple
    <2>2. Slots(t, Gapped("person", <<{"hard"}>>, Reach, <<{"breathing"}>>)) = {}
      BY <1>2, <1>3, NoSlot DEF Gapped
    <2>3. Slots(t, Simple("person", <<{"stuck"}, {"elevator"}>>)) = {}
      BY <1>2, <1>4, NoSlot DEF Simple
    <2>4. Slots(t, Gapped("person", <<{"elevator"}>>, Reach, <<{"stuck"}>>)) = {}
      BY <1>2, <1>3, NoSlot DEF Gapped
    <2> QED
      BY <1>10, <2>1, <2>2, <2>3, <2>4 DEF PersonTriggers
  <1> QED
    BY <1>6, <1>7, <1>8, <1>9, <1>10 DEF HardTriggers

\* The anchor of one word at i, and a phrase that begins there.
LEMMA BeginsOver ==
    ASSUME NEW t \in Seq(Words), NEW phrase, Len(phrase) \in Nat \ {0}, NEW i \in 1..Len(t),
           Begins(t, i, phrase)
    PROVE  \E c \in Spans(t, phrase) : Overlap(<<i, i>>, c)
  <1>1. PICK c \in Spans(t, phrase) : c[1] = i
    BY DEF Begins
  <1>2. c[1] \in Nat /\ c[2] \in Nat /\ c[1] <= c[2]
    BY SpanBounds
  <1>3. ~(i < c[1] \/ c[2] < i)
    BY <1>1, <1>2
  <1>4. <<i, i>>[1] = i /\ <<i, i>>[2] = i
    OBVIOUS
  <1> QED
    BY <1>1, <1>3, <1>4 DEF Overlap

\* A phrase guard activates with its phrase, unless a veto is said.
LEMMA PhraseActivates ==
    ASSUME NEW t, NEW name, NEW phrase, NEW refuses,
           PhraseGuard(name, phrase, refuses) \in HardGuards,
           Spans(t, phrase) # {}, \A r \in refuses : ~Says(t, r)
    PROVE  PhraseGuard(name, phrase, refuses) \in Activated(t)
  <1> DEFINE h == PhraseGuard(name, phrase, refuses)
  <1>1. h.core = phrase /\ h.battery = <<>> /\ h.refuses = refuses
    BY DEF PhraseGuard
  <1>2. h \in HardGuards
    OBVIOUS
  <1> HIDE DEF h
  <1>3. h \in Activated(t)
    BY <1>1, <1>2 DEF Activated
  <1> QED
    BY <1>3 DEF h

\* A battery guard activates with its alarm and a battery near enough, unless
\* the alarm is said to go on.
LEMMA BatteryActivates ==
    ASSUME NEW t, NEW name, NEW of, NEW words, NEW category,
           BatteryGuard(name, of, words, category) \in HardGuards,
           NEW c \in Spans(t, Alarm(of)), NEW b \in Spans(t, <<words>>), Within(c, b, Drift),
           Spans(t, Ongoing) = {}
    PROVE  BatteryGuard(name, of, words, category) \in Activated(t)
  <1> DEFINE h == BatteryGuard(name, of, words, category)
  <1>1. h.core = Alarm(of) /\ h.battery = <<words>> /\ h.refuses = {Ongoing}
    BY DEF BatteryGuard
  <1>2. h \in HardGuards
    OBVIOUS
  <1>3. ~Says(t, Ongoing)
    BY DEF Says
  <1> HIDE DEF h
  <1>4. h \in Activated(t)
    BY <1>1, <1>2, <1>3 DEF Activated
  <1> QED
    BY <1>4 DEF h

LEMMA RoutineFireSilenced ==
    ASSUME NEW t \in Seq(Words), Routine(t), NEW s \in Spans(t, <<{"fire"}>>)
    PROVE  Suppressed(t, [trigger |-> Simple("fire", <<{"fire"}>>), span |-> s])
  <1> DEFINE g == Simple("fire", <<{"fire"}>>)
             i == s[1]
             slot == [trigger |-> g, span |-> s]
  <1> SUFFICES Suppressed(t, slot)
    OBVIOUS
  <1>1. i \in 1..Len(t) /\ s = <<i, i>> /\ t[i] = "fire"
    BY OneWordSpan
  <1>2. RoutineFire(t, i)
    BY <1>1 DEF Routine
  <1>3. g.suppressible /\ g.category = "fire"
    BY DEF Simple, Trigger
  <1>s. slot = [trigger |-> g, span |-> s]
    OBVIOUS
  <1> HIDE DEF g, slot
  <1>4. ASSUME NEW h \in Activated(t), h.protects = "fire",
               Len(h.core) \in Nat \ {0}, Begins(t, i, h.core)
        PROVE  Suppressed(t, slot)
    <2>1. PICK c \in Spans(t, h.core) : Overlap(s, c)
      BY <1>1, <1>4, BeginsOver
    <2> QED
      BY <1>3, <1>4, <1>s, <2>1, Silenced
  <1>5. ASSUME NEW name, NEW phrase, NEW refuses,
               PhraseGuard(name, phrase, refuses) \in HardGuards,
               Len(phrase) \in Nat \ {0}, Begins(t, i, phrase), \A r \in refuses : ~Says(t, r)
        PROVE  Suppressed(t, slot)
    <2> DEFINE h == PhraseGuard(name, phrase, refuses)
    <2>1. h.core = phrase /\ h.protects = "fire"
      BY DEF PhraseGuard
    <2>2. Spans(t, phrase) # {}
      BY <1>5 DEF Begins
    <2>3. h \in Activated(t)
      BY <1>5, <2>2, PhraseActivates
    <2> HIDE DEF h
    <2> QED
      BY <1>4, <1>5, <2>1, <2>3
  <1>6. \A j \in 1..Len(t) : t[j] \notin {"flames"} /\ t[j] \notin {"burning"} /\ t[j] \notin {"sounding", "blaring"}
    BY DEF Routine, RoutineWords, SoftPatterns
  <1>7. CASE Begins(t, i, <<{"fire"}, {"drill"}>>)
    <2> DEFINE phrase == <<{"fire"}, {"drill"}>>
    <2>1. PhraseGuard("fire_drill", phrase, {}) \in HardGuards
      BY DEF HardGuards
    <2>2. Len(phrase) \in Nat \ {0} /\ Begins(t, i, phrase)
      BY <1>7
    <2>3. \A r \in {} : ~Says(t, r)
      OBVIOUS
    <2> HIDE DEF phrase
    <2> QED
      BY <1>5, <2>1, <2>2, <2>3
  <1>8. CASE Begins(t, i, <<{"fire"}, {"alarm"}, {"test"}>>)
    <2>1. PhraseGuard("fire_alarm_test", <<{"fire"}, {"alarm"}, {"test"}>>, {}) \in HardGuards
      BY DEF HardGuards
    <2>2. Len(<<{"fire"}, {"alarm"}, {"test"}>>) \in Nat \ {0}
      OBVIOUS
    <2>3. \A r \in {} : ~Says(t, r)
      OBVIOUS
    <2> QED
      BY <1>5, <1>8, <2>1, <2>2, <2>3
  <1>9. CASE /\ Begins(t, i, <<{"fire"}, {"escape"}>>)
             /\ ~Says(t, <<{"smoke"}>>) /\ ~Says(t, <<{"on"}, {"fire"}>>)
    <2>1. PhraseGuard("fire_escape", <<{"fire"}, {"escape"}>>, HazardOverride) \in HardGuards
      BY DEF HardGuards
    <2>2. Len(<<{"fire"}, {"escape"}>>) \in Nat \ {0}
      OBVIOUS
    <2>3. Spans(t, <<{"flames"}>>) = {} /\ Spans(t, <<{"burning"}>>) = {}
      BY <1>6, UnsaidOne
    <2>4. \A r \in HazardOverride : ~Says(t, r)
      BY <1>9, <2>3 DEF HazardOverride, Says
    <2> QED
      BY <1>5, <1>9, <2>1, <2>2, <2>4
  <1>10. CASE Begins(t, i, Alarm({"fire"})) /\ HasBattery(t, i)
    <2> DEFINE h == BatteryGuard("fire_alarm_battery", {"fire"}, {"battery"}, "fire")
    <2>1. h \in HardGuards
      BY DEF HardGuards
    <2>2. PICK c \in Spans(t, Alarm({"fire"})) : c[1] = i
      BY <1>10 DEF Begins
    <2>3. c = <<i, i + 1>>
      BY <2>2, TwoWordsSpan DEF Alarm
    <2>4. PICK b \in Spans(t, <<{"battery"}>>) : Within(c, b, Drift)
      BY <1>10, <2>3 DEF HasBattery
    <2>5. Spans(t, Ongoing) = {}
      BY <1>6, UnsaidOne DEF Ongoing
    <2>6. h \in Activated(t)
      BY <2>1, <2>2, <2>4, <2>5, BatteryActivates
    <2>7. h.core = Alarm({"fire"}) /\ h.protects = "fire"
      BY DEF BatteryGuard
    <2>8. Len(Alarm({"fire"})) \in Nat \ {0}
      BY DEF Alarm
    <2> HIDE DEF h
    <2> QED
      BY <1>4, <1>10, <2>6, <2>7, <2>8
  <1> QED
    BY <1>2, <1>7, <1>8, <1>9, <1>10 DEF RoutineFire

LEMMA RoutineAlarmSilenced ==
    ASSUME NEW t \in Seq(Words), Routine(t), NEW s \in Spans(t, Alarm({"co"}))
    PROVE  Suppressed(t, [trigger |-> Simple("gas_co", Alarm({"co"})), span |-> s])
  <1> DEFINE g == Simple("gas_co", Alarm({"co"}))
             i == s[1]
             h == BatteryGuard("co_alarm_battery", {"co", "monoxide"}, {"battery"}, "gas_co")
  <1>1. i \in 1..Len(t) /\ s = <<i, i + 1>>
    BY TwoWordsSpan DEF Alarm
  <1>2. Begins(t, i, Alarm({"co"}))
    BY DEF Begins
  <1>3. PICK b \in Spans(t, <<{"battery"}>>) : Within(s, b, Drift)
    BY <1>1, <1>2 DEF Routine, HasBattery
  <1>4. s \in Spans(t, Alarm({"co", "monoxide"}))
    BY TwoWordsMono, {"co"} \subseteq {"co", "monoxide"} DEF Alarm
  <1>5. \A j \in 1..Len(t) : t[j] \notin {"sounding", "blaring"}
    BY DEF Routine, RoutineWords, SoftPatterns
  <1>6. Spans(t, Ongoing) = {}
    BY <1>5, UnsaidOne DEF Ongoing
  <1>7. h \in HardGuards
    BY DEF HardGuards
  <1>8. h \in Activated(t)
    BY <1>3, <1>4, <1>6, <1>7, BatteryActivates
  <1>9. g.suppressible /\ g.category = "gas_co"
    BY DEF Simple, Trigger
  <1>10. h.core = Alarm({"co", "monoxide"}) /\ h.protects = "gas_co"
    BY DEF BatteryGuard
  <1>11. Overlap(s, s)
    BY <1>1 DEF Overlap
  <1> HIDE DEF g, h
  <1>12. Suppressed(t, [trigger |-> g, span |-> s])
    BY <1>4, <1>8, <1>9, <1>10, <1>11, Silenced
  <1> QED
    BY <1>12 DEF g

\* No routine text is taken for an emergency.
LEMMA EveryRoutineQuiet ==
    ASSUME NEW t \in Seq(Words)
    PROVE  RoutineStaysQuiet(t)
  <1> SUFFICES ASSUME Routine(t), HardHit(t) PROVE FALSE
    BY DEF RoutineStaysQuiet
  <1>1. PICK slot \in HitSlots(t) : ~Suppressed(t, slot)
    BY DEF HardHit, Fired
  <1>2. PICK g \in HardTriggers : \E s \in Slots(t, g) : slot = [trigger |-> g, span |-> s]
    BY DEF HitSlots
  <1>s. PICK s \in Slots(t, g) : slot = [trigger |-> g, span |-> s]
    BY <1>2
  <1>3. \A i \in 1..Len(t) : t[i] \in RoutineWords
    BY DEF Routine
  <1>4. CASE g = Simple("fire", <<{"fire"}>>)
    <2>1. g.kind = "simple" /\ g.anchor = <<{"fire"}>>
      BY <1>4 DEF Simple, Trigger
    <2>2. s \in Spans(t, <<{"fire"}>>)
      BY <2>1 DEF Slots
    <2> QED
      BY <1>1, <1>s, <1>4, <2>2, RoutineFireSilenced
  <1>5. CASE g = Simple("gas_co", Alarm({"co"}))
    <2>1. g.kind = "simple" /\ g.anchor = Alarm({"co"})
      BY <1>5 DEF Simple, Trigger
    <2>2. s \in Spans(t, Alarm({"co"}))
      BY <2>1 DEF Slots
    <2> QED
      BY <1>1, <1>s, <1>5, <2>2, RoutineAlarmSilenced
  <1> QED
    BY <1>s, <1>3, <1>4, <1>5, RoutineSlots

-----------------------------------------------------------------------------
(* The theorems.                                                           *)

\* What the tenant writes stays a text.
THEOREM PrefilterTypes == PrefilterSpec => []PrefilterTypeOK
  <1>1. PrefilterInit => PrefilterTypeOK
    BY PrefilterAssumption DEF PrefilterInit, PrefilterTypeOK, AllTexts
  <1>2. PrefilterTypeOK /\ [PrefilterNext]_text => PrefilterTypeOK'
    <2> SUFFICES ASSUME PrefilterTypeOK, PrefilterNext PROVE PrefilterTypeOK'
      BY DEF PrefilterTypeOK
    <2>1. PICK w \in Words : Len(text) < MaxWords /\ text' = Append(text, w)
      BY PrefilterAssumption DEF PrefilterNext, Write
    <2> QED
      BY <2>1, PrefilterAssumption DEF PrefilterTypeOK, AllTexts
  <1> QED
    BY <1>1, <1>2, PTL DEF PrefilterSpec

\* Tier 0 hears every hazard that no guarded phrase contains and every alarm
\* that is said to go on, and no routine text fires it: for every vocabulary,
\* texts of any length and windows of any size.
THEOREM TextsScreened == PrefilterSpec => EveryTextScreened
  <1>1. PrefilterTypeOK' => Screened(text')
    BY EveryAnchorHeard, EveryAlarmHeard, EveryRoutineQuiet DEF PrefilterTypeOK, AllTexts, Screened
  <1> QED
    BY <1>1, PrefilterTypes, PTL DEF EveryTextScreened
=============================================================================
