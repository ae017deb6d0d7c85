----------------------------- MODULE PwmProblems -----------------------------
(* The allocation problems of experiments/timer-allocation with the answers   *)
(* its checks assert, and the validation that brings a problem into the       *)
(* canonical form CandidateSearch solves.  The keys of requests are numbers   *)
(* (a = 1, b = 2, ...), which are ordered as the names are.                   *)
EXTENDS RequestConfig, SequencesExt, FiniteSetsExt

\* The options of a request that are active on the target, folded in the order
\* they are declared.
Config(target, options) ==
  FoldLeft(LAMBDA config, o : Applied(config, o, target), Blank,
           SelectSeq(options, LAMBDA o : Covers(o.section, target)))

\* ----- fixtures.hpp

Resource(id, parent, kind) == [id |-> id, parent |-> parent, kind |-> kind]

Resources ==
  {Resource(t, 0, "timer") : t \in {1, 2, 3}}
  \cup {Resource(c, c \div 10, "channel") : c \in {11, 12, 21, 22, 31, 32}}
  \cup {Resource(p, 0, "pin") : p \in {101, 102, 103}}
  \cup {Resource(201, 0, "domain")}

a == 1
b == 2
c == 3

InstanceOn(target, key, options) ==
  [key |-> key, group |-> 0, config |-> Config(target, options)]
Instance(key, options, group) ==
  [InstanceOn("avr", key, options) EXCEPT !.group = group]

A == Instance(a, Basic(101), 0)
B == Instance(b, Basic(102), 0)
C == Instance(c, Basic(103), 0)

Endpoint(request, channel, pin) ==
  [request |-> request, channel |-> channel, pin |-> pin]

choice(key, request, timer, pin) ==
  [key |-> key, timer |-> timer, configuration |-> 1, frequency |-> <<1000, 1>>,
   waveform |-> "fast", source |-> "icr", domain |-> 0, setting |-> 0,
   independent |-> TRUE, endpoints |-> <<Endpoint(request, timer * 10 + 1, pin)>>]

Problem(requests, candidates) ==
  [requests |-> requests, candidates |-> candidates, resources |-> Resources,
   reserved |-> {}, budget |-> 10000]

greedy ==
  Problem(<<A, B>>, <<choice(1, a, 1, 101), choice(2, a, 2, 101), choice(3, b, 1, 102)>>)

\* Two outputs of one timer, for two requests of one group.
sharing ==
  Problem(<<Instance(a, Basic(101), 7), Instance(b, Basic(102), 7)>>,
          <<[choice(1, a, 1, 101) EXCEPT !.endpoints = @ \o <<Endpoint(b, 12, 102)>>]>>)

\* Mutant: the last candidate takes the setting of the one before.
DomainsCopied ==
  Problem(<<A, B>>,
          <<[choice(1, a, 1, 101) EXCEPT !.domain = 201, !.setting = 8],
            [choice(2, b, 2, 102) EXCEPT !.domain = 201, !.setting = 64],
            [choice(3, b, 2, 102) EXCEPT !.domain = 201, !.setting = 64,
                                         !.configuration = 2]>>)

\* Two timers behind one prescaler, which has one setting.
domains ==
  Problem(<<A, B>>,
          <<[choice(1, a, 1, 101) EXCEPT !.domain = 201, !.setting = 8],
            [choice(2, b, 2, 102) EXCEPT !.domain = 201, !.setting = 64],
            [choice(3, b, 2, 102) EXCEPT !.domain = 201, !.setting = 8,
                                         !.configuration = 2]>>)

----------------------------------------------------------------------------
\* Validation, and the canonical form

Keys(p) == {r.key : r \in ToSet(p.requests)}
Ids(p) == {r.id : r \in p.resources}
Pins(cand) == {e.pin : e \in ToSet(cand.endpoints)}
Channels(cand) == {e.channel : e \in ToSet(cand.endpoints)}

Duplicated(s) == {x \in ToSet(s) : Cardinality({i \in DOMAIN s : s[i] = x}) > 1}

\* A resource with the ones it belongs to.
Above(p, id) == {id} \cup {r.parent : r \in {x \in p.resources : x.id = id}}

BadModel(p) ==
  \/ Duplicated([i \in DOMAIN p.candidates |-> p.candidates[i].key]) # {}
  \/ \E r \in p.resources : (r.kind = "channel") # (r.parent # 0)
  \/ \E r \in ToSet(p.requests) : r.config.pin \notin Ids(p)
  \/ \E cand \in ToSet(p.candidates) :
        \/ Cardinality(Pins(cand)) < Len(cand.endpoints)
        \/ Cardinality(Channels(cand)) < Len(cand.endpoints)
  \/ \E x, y \in p.reserved : x # y /\ x \in Above(p, y)

\* Requests of one group share a timer; the others each have their own.
Unit(p, r) ==
  {s \in ToSet(p.requests) : s.key = r.key \/ (r.group # 0 /\ r.group = s.group)}
Units(p) ==
  LET leads(r) == r.key = Min({s.key : s \in Unit(p, r)})
      leaders == SortSeq(SelectSeq(p.requests, leads), LAMBDA r, s : r.key < s.key)
  IN  FoldLeft(LAMBDA us, r : Append(us, Unit(p, r)), <<>>, leaders)

\* The candidate drives exactly the outputs of the unit, as each request asks.
Realizes(cand, unit) ==
  /\ {e.request : e \in ToSet(cand.endpoints)} = {r.key : r \in unit}
  /\ Cardinality(unit) = 1 \/ cand.independent
  /\ \A r \in unit :
        /\ InWindow(r.config.window, cand.frequency)
        /\ r.config.waveform \in {"any", cand.waveform}
        /\ r.config.source \in {"any", cand.source}
        /\ \E e \in ToSet(cand.endpoints) : e.request = r.key /\ e.pin = r.config.pin

\* The reserved resources a candidate needs: a reserved channel takes its timer.
Needs(p, cand) ==
  LET used == {cand.timer, cand.domain} \cup Pins(cand) \cup Channels(cand)
  IN  {x \in p.reserved : Above(p, x) \cap used # {}}

Offered(p, unit) == {cand \in ToSet(p.candidates) : Realizes(cand, unit)}

Options(p, unit) ==
  SortSeq(SelectSeq(p.candidates, LAMBDA x : Realizes(x, unit) /\ Needs(p, x) = {}),
          LAMBDA x, y : \/ x.timer < y.timer
                        \/ x.timer = y.timer /\ x.configuration < y.configuration)

\* What two units may not both take: a timer, a pin, a prescaler set twice.
Excludes(x, y) ==
  \/ x.timer = y.timer
  \/ Pins(x) \cap Pins(y) # {}
  \/ x.domain = y.domain /\ x.domain # 0 /\ x.setting # y.setting

\* The diagnostic of a problem that never reaches the search: its status, the
\* request it is about and a detail.
Refusal(p, units, options) ==
  LET keys == [i \in DOMAIN p.requests |-> p.requests[i].key]
      bad == {r \in ToSet(p.requests) : r.config.error # "none"}
      blocked == {units[i] : i \in {j \in DOMAIN units : options[j] = <<>>}}
      unoffered == {u \in blocked : Offered(p, u) = {}}
      first(us) == Min(UNION {{r.key : r \in u} : u \in us})
      taken == UNION {Needs(p, cand) : cand \in UNION {Offered(p, u) : u \in blocked}}
  IN  IF Duplicated(keys) # {}
      THEN LET k == Min(Duplicated(keys))
           IN  <<"duplicate_identity", k, Cardinality({i \in DOMAIN keys : keys[i] = k})>>
      ELSE IF bad # {}
      THEN LET r == CHOOSE r \in bad : r.key = Min({x.key : x \in bad})
           IN  <<"invalid_request", r.key, r.config.error>>
      ELSE IF BadModel(p) THEN <<"model_error", 0, 0>>
      ELSE IF unoffered # {} THEN <<"no_candidate", first(unoffered), 0>>
      ELSE IF blocked # {} THEN <<"reserved", first(blocked), Min(taken)>>
      ELSE <<"none", 0, 0>>

\* The canonical form of p, whose answer has to be the one expected.
Posed(p, expected) ==
  LET all == Units(p)
      offers == FoldLeft(LAMBDA os, u : Append(os, Options(p, u)), <<>>, all)
      refusal == Refusal(p, all, offers)
      units == IF refusal[1] = "none" THEN all ELSE <<>>
      options == IF refusal[1] = "none" THEN offers ELSE <<>>
      counts == [u \in DOMAIN units |-> Len(options[u])]
      pairs(u, v) == {x \in (1..counts[u]) \X (1..counts[v]) :
                        Excludes(options[u][x[1]], options[v][x[2]])}
  IN  [units |-> Len(units), options |-> counts,
       most |-> Max({0} \cup ToSet(counts)),
       clash |-> UNION {{<<w[1], x[1], w[2], x[2]>> : x \in pairs(w[1], w[2])} :
                        w \in {z \in (DOMAIN units) \X (DOMAIN units) : z[1] < z[2]}},
       budget |-> p.budget, refusal |-> refusal[1],
       key |-> refusal[2], detail |-> refusal[3],
       requests |-> [u \in DOMAIN units |-> Cardinality(units[u])],
       names |-> [u \in DOMAIN units |-> [i \in DOMAIN options[u] |-> options[u][i].key]],
       expected |-> expected]
=============================================================================
