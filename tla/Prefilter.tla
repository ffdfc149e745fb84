------------------------------- MODULE Prefilter -------------------------------
(***************************************************************************)
(* Tier 0 (app/agent/prefilter.py): which texts fire the emergency protocol *)
(* without a language model.  A text is a sequence of words, one word for  *)
(* all the spellings a pattern takes alike; the windows of the patterns    *)
(* are counted in words instead of characters.  That no text is mistaken   *)
(* by its case, accents or punctuation (_normalize) is left to the tests.  *)
(***************************************************************************)
EXTENDS Naturals, Sequences

CONSTANTS
    Vocabulary,  \* the words the tenant uses
    MaxWords,    \* bound: words of a text
    Near,        \* window of a trigger with an anchor, 40 or 60 characters
    Gap,         \* between an alarm and what says that it does not stop, 30
    Reach,       \* between the two halves of other triggers, 15 or 20
    Drift        \* between a guarded phrase and its battery, 80

Words ==
    {"on",                                      \* any other word
     "fire", "flames", "smoke", "burning",
     "alarm", "sounding", "blaring",            \* going off or sounding; will not stop
     "battery", "chirp", "drill", "test", "escape",
     "smell", "everywhere", "gas", "leak", "co", "monoxide",
     "water", "gushing", "outlet", "flood", "pipe", "burst",
     "intruder", "ambulance", "hard", "breathing", "elevator", "stuck",
     "freezing", "sparks", "locked"}

ASSUME PrefilterAssumption ==
    /\ Vocabulary \subseteq Words
    /\ MaxWords \in Nat /\ Near \in Nat /\ Gap \in Nat /\ Reach \in Nat /\ Drift \in Nat

VARIABLE text  \* what the tenant has written so far

AllTexts == {t \in Seq(Words) : Len(t) <= MaxWords}

\* The spans <<first, last>> at which the words of a phrase, each one of a set,
\* stand side by side.
Spans(t, phrase) ==
    {s \in (1..Len(t)) \X (1..Len(t)) :
        /\ s[2] = s[1] + Len(phrase) - 1
        /\ \A k \in 1..Len(phrase) : t[s[1] + k - 1] \in phrase[k]}
Says(t, phrase) == Spans(t, phrase) # {}

\* One phrase, and the other at most so many words behind it.
Follows(a, b, within) == a[2] < b[1] /\ b[1] - a[2] - 1 <= within
Within(a, b, within) == Follows(a, b, within) \/ Follows(b, a, within)

Trigger(category, kind, anchor, other, within) ==
    [category |-> category, kind |-> kind, anchor |-> anchor,
     other |-> other, within |-> within, suppressible |-> TRUE]
\* _SimpleTrigger: the whole match is the anchor.  With a second half behind a
\* gap, a match runs from the first to the second.
Simple(category, phrase) == Trigger(category, "simple", phrase, <<>>, 0)
Gapped(category, phrase, within, other) == Trigger(category, "gapped", phrase, other, within)
\* _ProximityTrigger: the anchor alone, wherever the other is within reach.
Proximity(category, phrase, other) == Trigger(category, "proximity", phrase, other, Near)
Unsuppressible(g) == [g EXCEPT !.suppressible = FALSE]

Ongoing == <<{"sounding", "blaring"}>>
Alarm(of) == <<of, {"alarm"}>>
\* An alarm that does not stop, said in either order.
ContinuousAlarm(category, of) ==
    {Unsuppressible(Gapped(category, Alarm(of), Gap, Ongoing)),
     Unsuppressible(Gapped(category, Ongoing, Gap, Alarm(of)))}

FireTriggers ==
    {Simple("fire", <<{"fire"}>>), Simple("fire", <<{"flames"}>>),
     Simple("fire", <<{"burning"}, {"smell"}>>),
     Proximity("fire", <<{"smoke"}>>, <<{"smell", "everywhere"}>>)}
    \cup ContinuousAlarm("fire", {"smoke"}) \cup ContinuousAlarm("fire", {"fire"})
GasTriggers ==
    {Proximity("gas_co", <<{"gas"}>>, <<{"smell", "leak"}>>),
     Proximity("gas_co", <<{"leak"}>>, <<{"gas"}>>),
     Simple("gas_co", <<{"monoxide"}>>), Simple("gas_co", Alarm({"co"})),
     Unsuppressible(Simple("gas_co", <<{"alarm"}, {"sounding"}>>))}
    \cup ContinuousAlarm("gas_co", {"co", "monoxide"})
WaterTriggers ==
    {Simple("water", <<{"flood"}>>), Simple("water", <<{"burst"}, {"pipe"}>>),
     Gapped("water", <<{"pipe"}>>, Reach, <<{"burst"}>>),
     Proximity("water", <<{"water"}>>, <<{"gushing", "outlet"}>>)}
SecurityTriggers == {Simple("security", <<{"intruder"}>>)}
PersonTriggers ==
    {Simple("person", <<{"ambulance"}>>),
     Gapped("person", <<{"hard"}>>, Reach, <<{"breathing"}>>),
     Simple("person", <<{"stuck"}, {"elevator"}>>),
     Gapped("person", <<{"elevator"}>>, Reach, <<{"stuck"}>>)}
HardTriggers ==
    FireTriggers \cup GasTriggers \cup WaterTriggers \cup SecurityTriggers \cup PersonTriggers

\* _FIRE_HAZARD_OVERRIDE_RE: what else is said of a fire escape.
HazardOverride == {<<{"flames"}>>, <<{"smoke"}>>, <<{"burning"}>>, <<{"on"}, {"fire"}>>}

\* A guard protects its core phrase from the triggers of one category, if its
\* battery is near enough and nothing it refuses is said anywhere.
BatteryGuard(name, of, words, category) ==
    [name |-> name, core |-> Alarm(of), battery |-> <<words>>,
     protects |-> category, refuses |-> {Ongoing}]
PhraseGuard(name, phrase, refuses) ==
    [name |-> name, core |-> phrase, battery |-> <<>>, protects |-> "fire", refuses |-> refuses]
HardGuards ==
    {BatteryGuard("smoke_detector_battery", {"smoke"}, {"battery", "chirp"}, "fire"),
     BatteryGuard("fire_alarm_battery", {"fire"}, {"battery"}, "fire"),
     BatteryGuard("co_alarm_battery", {"co", "monoxide"}, {"battery"}, "gas_co"),
     PhraseGuard("fire_drill", <<{"fire"}, {"drill"}>>, {}),
     PhraseGuard("fire_alarm_test", <<{"fire"}, {"alarm"}, {"test"}>>, {}),
     PhraseGuard("fire_escape", <<{"fire"}, {"escape"}>>, HazardOverride)}

\* What is noted for the classifier and never fires by itself.
SoftPatterns == {"freezing", "sparks", "leak", "locked"}

\* _collect_hit_slots: every trigger with every span of its anchor.  The scan of
\* a gapped pattern stops at the farthest second half; these spans overlap the
\* same phrases, and no guard touches such a trigger.
Slots(t, g) ==
    CASE g.kind = "simple" -> Spans(t, g.anchor)
      [] g.kind = "gapped" ->
           {<<s[1][1], s[2][2]>> : s \in {s \in Spans(t, g.anchor) \X Spans(t, g.other) :
                                            Follows(s[1], s[2], g.within)}}
      [] g.kind = "proximity" ->
           {s \in Spans(t, g.anchor) : \E o \in Spans(t, g.other) : Within(s, o, g.within)}
HitSlots(t) == UNION {{[trigger |-> g, span |-> s] : s \in Slots(t, g)} : g \in HardTriggers}

\* A guard that activates: its battery before or behind the phrase, and no veto.
Activated(t) ==
    {g \in HardGuards :
        /\ \E c \in Spans(t, g.core) :
              g.battery = <<>> \/ \E b \in Spans(t, g.battery) : Within(c, b, Drift)
        /\ \A r \in g.refuses : ~Says(t, r)}

\* Mutant: a guard silences all words that its pattern reaches.
CoresWholeMatch(t, g) ==
    Spans(t, g.core) \cup
    {<<s[1][1], s[2][2]>> : s \in {s \in Spans(t, g.core) \X Spans(t, g.battery) : Follows(s[1], s[2], Drift)}}
\* The guarded phrase alone is what a guard silences, not the words up to the
\* battery.
Cores(t, g) == Spans(t, g.core)
Overlap(a, b) == ~(a[2] < b[1] \/ b[2] < a[1])
Suppressed(t, slot) ==
    /\ slot.trigger.suppressible
    /\ \E g \in Activated(t) :
          /\ g.protects = slot.trigger.category
          /\ \E c \in Cores(t, g) : Overlap(slot.span, c)

\* check: the categories of the slots that no guard silenced, and what is noted.
Fired(t) == {s.trigger.category : s \in {s \in HitSlots(t) : ~Suppressed(t, s)}}
HardHit(t) == Fired(t) # {}
SoftAnnotations(t) == {w \in SoftPatterns : Says(t, <<{w}>>)}

\* The tenant writes on.
Write(w) == Len(text) < MaxWords /\ text' = Append(text, w)

PrefilterInit == text = <<>>
PrefilterNext == \E w \in Vocabulary : Write(w)
PrefilterSpec == PrefilterInit /\ [][PrefilterNext]_text

-----------------------------------------------------------------------------
(* Properties.                                                             *)

\* The text stays one.
PrefilterTypeOK == text \in AllTexts

\* The invariant of the module's documentation: an anchor outside every guarded
\* phrase fires, whatever battery, drill or fixture is spoken of beside it.
AnchorsHeard(t) ==
    \A g \in HardTriggers : \A s \in Slots(t, g) :
        (\A h \in HardGuards : \A c \in Spans(t, h.core) : ~Overlap(s, c)) => g.category \in Fired(t)

\* An alarm that is said not to stop is an emergency, in either order and with
\* any battery: no guard may silence it.
AlarmsHeard(t) ==
    \A of \in {"smoke", "fire", "co", "monoxide"} :
        (\E a \in Spans(t, Alarm({of})), o \in Spans(t, Ongoing) : Within(a, o, Gap)) => HardHit(t)

\* A text of nothing but drills, tests, fixtures, batteries and what is only
\* noted is no emergency: each "fire" begins a phrase a guard knows, each alarm
\* has its battery.
RoutineWords ==
    {"on", "fire", "smoke", "co", "alarm", "battery", "chirp", "drill", "test", "escape"} \cup SoftPatterns
Begins(t, i, phrase) == \E s \in Spans(t, phrase) : s[1] = i
HasBattery(t, i) == \E s \in Spans(t, <<{"battery"}>>) : Within(<<i, i + 1>>, s, Drift)
RoutineFire(t, i) ==
    \/ Begins(t, i, <<{"fire"}, {"drill"}>>)
    \/ Begins(t, i, <<{"fire"}, {"alarm"}, {"test"}>>)
    \/ /\ Begins(t, i, <<{"fire"}, {"escape"}>>)
       /\ ~Says(t, <<{"smoke"}>>) /\ ~Says(t, <<{"on"}, {"fire"}>>)
    \/ Begins(t, i, Alarm({"fire"})) /\ HasBattery(t, i)
Routine(t) ==
    \A i \in 1..Len(t) :
        /\ t[i] \in RoutineWords
        /\ t[i] = "fire" => RoutineFire(t, i)
        /\ Begins(t, i, Alarm({"co"})) => HasBattery(t, i)
RoutineStaysQuiet(t) == Routine(t) => ~HardHit(t)

Screened(t) == AnchorsHeard(t) /\ AlarmsHeard(t) /\ RoutineStaysQuiet(t)

\* Whatever the tenant writes next, a hazard is heard and a routine text is not
\* mistaken for one.
EveryTextScreened == [][text' # text => Screened(text')]_text
=============================================================================
