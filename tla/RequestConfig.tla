---------------------------- MODULE RequestConfig ----------------------------
(* What a PWM request asks of a timer on one target: request<Target,          *)
(* Instance<...>>() folds the options that are active on the target into a    *)
(* configuration.  An option outside a section is active everywhere, one in   *)
(* For<Section, ...> only on the targets the section covers, and the first    *)
(* thing that goes wrong is the error of the request.                         *)
EXTENDS FrequencyWindows, Sequences

\* Options.  "family" is the hardware that knows the option.
Rate(n, d, t, u) ==
  [kind |-> "rate", rate |-> <<n, d>>, tol |-> <<t, u>>, section |-> "any", family |-> "any"]
Exact(n, d) == Rate(n, d, 0, 1)
Pin(p) == [kind |-> "pin", value |-> p, section |-> "any", family |-> "any"]
Wave(w) == [kind |-> "waveform", value |-> w, section |-> "any", family |-> "avr"]
Clock(s, f) == [kind |-> "source", value |-> s, section |-> "any", family |-> f]
Unknown == [kind |-> "unknown", section |-> "any", family |-> "nobody"]
For(section, options) ==
  [i \in DOMAIN options |-> [options[i] EXCEPT !.section = section]]

\* The ATmega328P is an AVR.
Covers(section, target) ==
  section \in {"any", target} \/ (section = "avr" /\ target = "atmega328p")

Blank == [window |-> Unset, pin |-> 0, waveform |-> "any", source |-> "any", error |-> "none"]

WithError(config, error) ==
  [config EXCEPT !.error = IF @ = "none" THEN error ELSE @]

\* Apply<Target, Option>::run(config): two rates meet in the intersection of
\* their windows, two values of another option must be equal.
Applied(config, o, target) ==
  IF ~Covers(o.family, target) THEN WithError(config, "unsupported_option")
  ELSE IF o.kind = "rate"
  THEN IF ~ValidWindow(o.rate, o.tol) THEN WithError(config, "invalid_value")
       ELSE LET met == Intersect(config.window, Around(o.rate, o.tol))
                c == [config EXCEPT !.window = met]
            IN  IF EmptyWindow(met) THEN WithError(c, "conflict") ELSE c
  ELSE IF config[o.kind] \in {Blank[o.kind], o.value}
  THEN [config EXCEPT ![o.kind] = o.value]
  ELSE WithError(config, "conflict")

----------------------------------------------------------------------------
\* The requests of the checks (DutyStepAtMost is left out: every candidate of
\* these checks offers the step of 1/256 they ask for)

Basic(p) == <<Exact(1000, 1), Pin(p)>>
Portable == <<Exact(1000, 1)>>
            \o For("avr", <<Pin(101), Wave("fast"), Clock("icr", "avr")>>)
            \o For("esp32", <<Pin(102), Clock("apb", "esp32")>>)
PoisonOnEsp == Basic(101) \o For("esp32", <<Unknown, Rate(0, 0, 2, 1)>>)
LazyOnEsp == Basic(101) \o For("esp32", <<Unknown>>)

Misplaced == Basic(101) \o For("esp32", <<Wave("fast")>>)
Overlapping == Basic(101) \o For("avr", <<Wave("fast")>>)
                          \o For("atmega328p", <<Wave("phase")>>)
MultipleRates == <<Exact(1000, 1), Rate(1000, 1, 1, 1000), Pin(101)>>

CommonRate == Rate(1000, 1, 1, 100)
Combined == <<CommonRate, Pin(101)>> \o For("avr", <<Exact(1000, 1)>>)
                                     \o For("esp32", <<Exact(1005, 1)>>)
CombinedReversed == For("esp32", <<Exact(1005, 1)>>)
                    \o For("avr", <<Exact(1000, 1)>>) \o <<Pin(101), CommonRate>>
Contradictory == <<CommonRate, Pin(101)>> \o For("avr", <<Exact(1020, 1)>>)
ContradictoryReversed == For("avr", <<Exact(1020, 1)>>) \o <<Pin(101), CommonRate>>
Fractional == <<Rate(1, 3, 1, 2), Rate(2, 3, 1, 4), Pin(101)>>
=============================================================================
