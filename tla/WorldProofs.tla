----------------------------- MODULE WorldProofs -----------------------------
(***************************************************************************)
(* What every handler keeps of the project, for every project, set of      *)
(* offered domains and sequence of calls.                                  *)
(***************************************************************************)
EXTENDS WorldSession, TLAPS

-----------------------------------------------------------------------------
(* Collections whose records carry their keys: F maps a key to the records *)
(* that may be stored under it.                                            *)
Keyed(S, F) ==
  {c \in PartialFcn(S, UNION {F[k] : k \in S}) : \A k \in DOMAIN c : c[k] \in F[k]}

PointOf == [t \in Tags |-> {v \in Point : v.tag = t}]
AlarmOf == [a \in AlarmIds |-> {v \in Alarm : v.id = a}]
HistoryOf == [t \in Tags |-> {v \in History : v.tag = t}]
ScriptOf == [s \in ScriptIds |-> {v \in Script : v.id = s}]
DeviceOf == [d \in DeviceIds |-> {v \in Device : v.id = d}]
WidgetOf(p) == [x \in WidgetIds |-> {v \in Widget : v.id = x /\ v.page = p}]
PageOf == [p \in PageIds |-> {v \in Page : /\ v.id = p
                                           /\ v.widgets \in Keyed(WidgetIds, WidgetOf(p))}]
GroupOf == [g \in PageIds \X GroupIds |-> SUBSET WidgetIds]

GoodWorld == [points : Keyed(Tags, PointOf),
              alarms : Keyed(AlarmIds, AlarmOf),
              pages : Keyed(PageIds, PageOf),
              histories : Keyed(Tags, HistoryOf),
              scripts : Keyed(ScriptIds, ScriptOf),
              devices : Keyed(DeviceIds, DeviceOf),
              groups : Keyed(PageIds \X GroupIds, GroupOf)]

LEMMA KeyedFunction ==
  ASSUME NEW S, NEW F, NEW c,
         c = [k \in DOMAIN c |-> c[k]], DOMAIN c \subseteq S,
         \A k \in DOMAIN c : c[k] \in F[k]
  PROVE  c \in Keyed(S, F)
<1>1. c \in [DOMAIN c -> UNION {F[k] : k \in S}]
  OBVIOUS
<1> QED BY <1>1 DEF Keyed, PartialFcn

LEMMA KeyedFacts ==
  ASSUME NEW S, NEW F, NEW c \in Keyed(S, F)
  PROVE  /\ DOMAIN c \subseteq S
         /\ c = [k \in DOMAIN c |-> c[k]]
         /\ \A k \in DOMAIN c : c[k] \in F[k]
<1>1. PICK D \in SUBSET S : c \in [D -> UNION {F[k] : k \in S}]
  BY DEF Keyed, PartialFcn
<1> QED BY <1>1 DEF Keyed

LEMMA KeyedPut ==
  ASSUME NEW S, NEW F, NEW c \in Keyed(S, F), NEW k \in S, NEW v \in F[k]
  PROVE  /\ Put(c, k, v) \in Keyed(S, F)
         /\ DOMAIN Put(c, k, v) = DOMAIN c \cup {k}
         /\ \A j \in DOMAIN c \cup {k} : Put(c, k, v)[j] = IF j = k THEN v ELSE c[j]
<1>1. /\ DOMAIN Put(c, k, v) = DOMAIN c \cup {k}
      /\ \A j \in DOMAIN c \cup {k} : Put(c, k, v)[j] = IF j = k THEN v ELSE c[j]
      /\ Put(c, k, v) = [j \in DOMAIN Put(c, k, v) |-> Put(c, k, v)[j]]
  BY DEF Put
<1> QED BY <1>1, KeyedFacts, KeyedFunction

LEMMA KeyedRestrict ==
  ASSUME NEW S, NEW F, NEW c \in Keyed(S, F), NEW D \in SUBSET DOMAIN c
  PROVE  /\ Restrict(c, D) \in Keyed(S, F)
         /\ DOMAIN Restrict(c, D) = D
         /\ \A j \in D : Restrict(c, D)[j] = c[j]
<1>1. /\ DOMAIN Restrict(c, D) = D
      /\ \A j \in D : Restrict(c, D)[j] = c[j]
      /\ Restrict(c, D) = [j \in DOMAIN Restrict(c, D) |-> Restrict(c, D)[j]]
  BY DEF Restrict
<1> QED BY <1>1, KeyedFacts, KeyedFunction

LEMMA KeyedDel ==
  ASSUME NEW S, NEW F, NEW c \in Keyed(S, F), NEW k
  PROVE  /\ Del(c, k) \in Keyed(S, F)
         /\ DOMAIN Del(c, k) = DOMAIN c \ {k}
         /\ \A j \in DOMAIN c \ {k} : Del(c, k)[j] = c[j]
<1>1. DOMAIN c \ {k} \in SUBSET DOMAIN c
  OBVIOUS
<1> QED BY <1>1, KeyedRestrict DEF Del

LEMMA KeyedEdit ==
  ASSUME NEW S, NEW F, NEW c \in Keyed(S, F), NEW k \in DOMAIN c, NEW v \in F[k]
  PROVE  /\ [c EXCEPT ![k] = v] \in Keyed(S, F)
         /\ DOMAIN [c EXCEPT ![k] = v] = DOMAIN c
         /\ \A j \in DOMAIN c : [c EXCEPT ![k] = v][j] = IF j = k THEN v ELSE c[j]
<1>1. c = [j \in DOMAIN c |-> c[j]] /\ DOMAIN c \subseteq S
      /\ \A j \in DOMAIN c : c[j] \in F[j]
  BY KeyedFacts
<1> DEFINE e == [c EXCEPT ![k] = v]
<1>2. /\ DOMAIN e = DOMAIN c
      /\ \A j \in DOMAIN c : e[j] = IF j = k THEN v ELSE c[j]
      /\ e = [j \in DOMAIN e |-> e[j]]
  BY <1>1
<1> HIDE DEF e
<1>3. e \in Keyed(S, F)
  BY <1>1, <1>2, KeyedFunction
<1> QED BY <1>2, <1>3 DEF e

LEMMA KeyedEmpty ==
  ASSUME NEW S, NEW F
  PROVE  <<>> \in Keyed(S, F)
<1>1. DOMAIN <<>> = {} /\ <<>> = [k \in DOMAIN <<>> |-> <<>>[k]]
  OBVIOUS
<1> QED BY <1>1, KeyedFunction

-----------------------------------------------------------------------------
(* A good world is a typed one whose keys agree.                           *)
LEMMA GoodWorldIff ==
  ASSUME NEW w
  PROVE  w \in GoodWorld <=> w \in MockWorld /\ KeysAgreeIn(w)
<1>1. ASSUME w \in GoodWorld PROVE w \in MockWorld /\ KeysAgreeIn(w)
  <2>1. /\ w.points \in Keyed(Tags, PointOf) /\ w.alarms \in Keyed(AlarmIds, AlarmOf)
        /\ w.pages \in Keyed(PageIds, PageOf)
        /\ w.histories \in Keyed(Tags, HistoryOf)
        /\ w.scripts \in Keyed(ScriptIds, ScriptOf)
        /\ w.devices \in Keyed(DeviceIds, DeviceOf)
        /\ w.groups \in Keyed(PageIds \X GroupIds, GroupOf)
    BY <1>1 DEF GoodWorld
  <2>2. ASSUME NEW S, NEW F, NEW T, NEW c \in Keyed(S, F), \A k \in S : F[k] \subseteq T
        PROVE  c \in PartialFcn(S, T)
    <3>1. /\ DOMAIN c \in SUBSET S /\ c = [k \in DOMAIN c |-> c[k]]
          /\ \A k \in DOMAIN c : c[k] \in T
      BY <2>2, KeyedFacts
    <3>2. c \in [DOMAIN c -> T]
      BY <3>1
    <3> QED BY <3>1, <3>2 DEF PartialFcn
  <2>3. /\ \A t \in Tags : PointOf[t] \subseteq Point /\ HistoryOf[t] \subseteq History
        /\ \A a \in AlarmIds : AlarmOf[a] \subseteq Alarm
        /\ \A p \in PageIds : PageOf[p] \subseteq Page
        /\ \A s \in ScriptIds : ScriptOf[s] \subseteq Script
        /\ \A d \in DeviceIds : DeviceOf[d] \subseteq Device
        /\ \A g \in PageIds \X GroupIds : GroupOf[g] \subseteq SUBSET WidgetIds
    BY DEF PointOf, HistoryOf, AlarmOf, PageOf, ScriptOf, DeviceOf, GroupOf
  <2>4. /\ w.points \in PartialFcn(Tags, Point) /\ w.alarms \in PartialFcn(AlarmIds, Alarm)
        /\ w.histories \in PartialFcn(Tags, History)
        /\ w.scripts \in PartialFcn(ScriptIds, Script)
        /\ w.devices \in PartialFcn(DeviceIds, Device)
    BY <2>1, <2>2, <2>3
  <2>5. /\ w.pages \in PartialFcn(PageIds, Page)
        /\ w.groups \in PartialFcn(PageIds \X GroupIds, SUBSET WidgetIds)
    BY <2>1, <2>2, <2>3
  <2>6. w \in MockWorld
    BY <1>1, <2>4, <2>5 DEF GoodWorld, MockWorld
  <2>7. /\ \A t \in DOMAIN w.points : w.points[t].tag = t
        /\ \A a \in DOMAIN w.alarms : w.alarms[a].id = a
        /\ \A t \in DOMAIN w.histories : w.histories[t].tag = t
    BY <2>1, KeyedFacts DEF PointOf, AlarmOf, HistoryOf
  <2>8. /\ \A s \in DOMAIN w.scripts : w.scripts[s].id = s
        /\ \A d \in DOMAIN w.devices : w.devices[d].id = d
    BY <2>1, KeyedFacts DEF ScriptOf, DeviceOf
  <2>9. ASSUME NEW p \in DOMAIN w.pages
        PROVE  /\ w.pages[p].id = p
               /\ \A x \in DOMAIN w.pages[p].widgets :
                    w.pages[p].widgets[x].id = x /\ w.pages[p].widgets[x].page = p
    <3>1. w.pages[p].id = p /\ w.pages[p].widgets \in Keyed(WidgetIds, WidgetOf(p))
      BY <2>1, <2>9, KeyedFacts DEF PageOf
    <3>2. \A x \in DOMAIN w.pages[p].widgets :
            x \in WidgetIds /\ w.pages[p].widgets[x] \in WidgetOf(p)[x]
      BY <3>1, KeyedFacts
    <3> QED BY <3>1, <3>2 DEF WidgetOf
  <2> QED BY <2>6, <2>7, <2>8, <2>9 DEF KeysAgreeIn
<1>2. ASSUME w \in MockWorld, KeysAgreeIn(w) PROVE w \in GoodWorld
  <2>1. /\ w.points \in PartialFcn(Tags, Point) /\ w.alarms \in PartialFcn(AlarmIds, Alarm)
        /\ w.pages \in PartialFcn(PageIds, Page)
        /\ w.histories \in PartialFcn(Tags, History)
        /\ w.scripts \in PartialFcn(ScriptIds, Script)
        /\ w.devices \in PartialFcn(DeviceIds, Device)
        /\ w.groups \in PartialFcn(PageIds \X GroupIds, SUBSET WidgetIds)
    BY <1>2 DEF MockWorld
  <2>2. ASSUME NEW S, NEW T, NEW c \in PartialFcn(S, T)
        PROVE  /\ c = [k \in DOMAIN c |-> c[k]] /\ DOMAIN c \subseteq S
               /\ \A k \in DOMAIN c : c[k] \in T
    BY <2>2 DEF PartialFcn
  <2>3. w.points \in Keyed(Tags, PointOf) /\ w.histories \in Keyed(Tags, HistoryOf)
    <3>1. /\ \A t \in DOMAIN w.points : w.points[t] \in PointOf[t]
          /\ \A t \in DOMAIN w.histories : w.histories[t] \in HistoryOf[t]
      BY <1>2, <2>1, <2>2 DEF PointOf, HistoryOf, KeysAgreeIn
    <3> QED BY <2>1, <2>2, <3>1, KeyedFunction
  <2>4. w.alarms \in Keyed(AlarmIds, AlarmOf) /\ w.scripts \in Keyed(ScriptIds, ScriptOf)
    <3>1. /\ \A a \in DOMAIN w.alarms : w.alarms[a] \in AlarmOf[a]
          /\ \A s \in DOMAIN w.scripts : w.scripts[s] \in ScriptOf[s]
      BY <1>2, <2>1, <2>2 DEF AlarmOf, ScriptOf, KeysAgreeIn
    <3> QED BY <2>1, <2>2, <3>1, KeyedFunction
  <2>5. /\ w.devices \in Keyed(DeviceIds, DeviceOf)
        /\ w.groups \in Keyed(PageIds \X GroupIds, GroupOf)
    <3>1. /\ \A d \in DOMAIN w.devices : w.devices[d] \in DeviceOf[d]
          /\ \A g \in DOMAIN w.groups : w.groups[g] \in GroupOf[g]
      BY <1>2, <2>1, <2>2 DEF DeviceOf, GroupOf, KeysAgreeIn
    <3> QED BY <2>1, <2>2, <3>1, KeyedFunction
  <2>6. ASSUME NEW p \in DOMAIN w.pages PROVE w.pages[p] \in PageOf[p]
    <3>a. /\ p \in PageIds /\ w.pages[p] \in Page
      BY <2>1, <2>2, <2>6
    <3>1. /\ p \in PageIds /\ w.pages[p] \in Page
          /\ w.pages[p].widgets \in PartialFcn(WidgetIds, Widget)
      BY <3>a DEF Page
    <3>2. \A x \in DOMAIN w.pages[p].widgets : w.pages[p].widgets[x] \in WidgetOf(p)[x]
      BY <1>2, <2>2, <2>6, <3>1 DEF WidgetOf, KeysAgreeIn
    <3>3. w.pages[p].widgets \in Keyed(WidgetIds, WidgetOf(p))
      BY <2>2, <3>1, <3>2, KeyedFunction
    <3> QED BY <1>2, <2>6, <3>1, <3>3 DEF PageOf, KeysAgreeIn
  <2>7. w.pages \in Keyed(PageIds, PageOf)
    BY <2>1, <2>2, <2>6, KeyedFunction
  <2> QED BY <1>2, <2>3, <2>4, <2>5, <2>7 DEF GoodWorld, MockWorld
<1> QED BY <1>1, <1>2

-----------------------------------------------------------------------------
(* What a call says of itself against what it did, DiffTellsTheChange and  *)
(* LossesAreCaged of one result.                                           *)
Tells(before, after, put, gone) ==
  /\ \A path \in Changed(before, after) : Covers(put \cup gone, path)
  /\ put \subseteq Paths(after)
  /\ gone \cap Paths(after) = {}

Lossy == EnumeratedDestructive \cup PrefixDestructive \cup Uncaged

(* The entities of a collection.                                           *)
Filed(name, c) == {<<<<name, k>>, c[k]>> : k \in DOMAIN c}
GroupsFiled(c) == {<<<<"groups", g[1], g[2]>>, c[g]>> : g \in DOMAIN c}
PagesFiled(c) == {<<<<"pages", p>>, c[p].note>> : p \in DOMAIN c}
WidgetsFiled(c) ==
  UNION {{<<<<"widgets", p, x>>, c[p].widgets[x]>> : x \in DOMAIN c[p].widgets} :
           p \in DOMAIN c}
Named(name, keys) == {<<name, k>> : k \in keys}

LEMMA EntitiesFiled ==
  ASSUME NEW w
  PROVE  Entities(w) = Filed("points", w.points) \cup Filed("alarms", w.alarms)
                       \cup Filed("histories", w.histories)
                       \cup Filed("scripts", w.scripts) \cup Filed("devices", w.devices)
                       \cup GroupsFiled(w.groups) \cup PagesFiled(w.pages)
                       \cup WidgetsFiled(w.pages)
BY DEF Entities, Filed, GroupsFiled, PagesFiled, WidgetsFiled

LEMMA FiledNames ==
  /\ \A name, c : \A e \in Filed(name, c) : e[1][1] = name
  /\ \A c : \A e \in GroupsFiled(c) : e[1][1] = "groups"
  /\ \A c : \A e \in PagesFiled(c) : e[1][1] = "pages"
  /\ \A c : \A e \in WidgetsFiled(c) : e[1][1] = "widgets"
BY DEF Filed, GroupsFiled, PagesFiled, WidgetsFiled

(* A call that touches some collections only tells the change if it tells  *)
(* the change of these.                                                    *)
LEMMA TellsOfThese ==
  ASSUME NEW A, NEW B, NEW R, NEW put, NEW gone, NEW names,
         \A e \in R : e[1][1] \notin names, \A q \in gone : q[1] \in names,
         Tells(A, B, put, gone)
  PROVE  Tells(A \cup R, B \cup R, put, gone)
<1>1. Changed(A \cup R, B \cup R) \subseteq Changed(A, B)
  BY DEF Changed, Paths
<1>2. put \subseteq Paths(B \cup R)
  BY DEF Tells, Paths
<1>3. gone \cap Paths(R) = {}
  BY DEF Paths
<1>4. gone \cap Paths(B \cup R) = {}
  BY <1>3 DEF Tells, Paths
<1> QED BY <1>1, <1>2, <1>4 DEF Tells

(* Keys put and gone, everything else as it was.                           *)
Told(c, d, put, gone) ==
  /\ put \subseteq DOMAIN d /\ gone \cap DOMAIN d = {}
  /\ \A k \in (DOMAIN c \cup DOMAIN d) \ (put \cup gone) :
       k \in DOMAIN c /\ k \in DOMAIN d /\ c[k] = d[k]

LEMMA ToldFiled ==
  ASSUME NEW name, NEW c, NEW d, NEW P, NEW G, Told(c, d, P, G)
  PROVE  Tells(Filed(name, c), Filed(name, d), Named(name, P), Named(name, G))
<1>1. ASSUME NEW k \in DOMAIN c, <<<<name, k>>, c[k]>> \notin Filed(name, d)
      PROVE  k \in P \cup G
  BY <1>1 DEF Filed, Told
<1>2. ASSUME NEW k \in DOMAIN d, <<<<name, k>>, d[k]>> \notin Filed(name, c)
      PROVE  k \in P \cup G
  BY <1>2 DEF Filed, Told
<1>3. \A path \in Changed(Filed(name, c), Filed(name, d)) :
        \E k \in P \cup G : path = <<name, k>>
  BY <1>1, <1>2 DEF Changed, Paths, Filed
<1>4. Paths(Filed(name, d)) = Named(name, DOMAIN d)
  <2>1. \A e \in Filed(name, d) : \E k \in DOMAIN d : e[1] = <<name, k>>
    BY DEF Filed
  <2>2. ASSUME NEW k \in DOMAIN d PROVE \E e \in Filed(name, d) : e[1] = <<name, k>>
    <3>1. <<<<name, k>>, d[k]>> \in Filed(name, d) /\ <<<<name, k>>, d[k]>>[1] = <<name, k>>
      BY DEF Filed
    <3> QED BY <3>1
  <2> QED BY <2>1, <2>2 DEF Paths, Named
<1>5. Named(name, P) \subseteq Named(name, DOMAIN d)
  BY DEF Told, Named
<1>6. Named(name, G) \cap Named(name, DOMAIN d) = {}
  BY DEF Told, Named
<1>7. \A path \in Changed(Filed(name, c), Filed(name, d)) :
        Covers(Named(name, P) \cup Named(name, G), path)
  BY <1>3 DEF Covers, Named
<1> QED BY <1>4, <1>5, <1>6, <1>7 DEF Tells

LEMMA ToldGroups ==
  ASSUME NEW c, NEW d, NEW P, NEW G, Told(c, d, P, G),
         \A g \in DOMAIN c \cup DOMAIN d \cup P \cup G : g = <<g[1], g[2]>>
  PROVE  Tells(GroupsFiled(c), GroupsFiled(d),
               {<<"groups", g[1], g[2]>> : g \in P}, {<<"groups", g[1], g[2]>> : g \in G})
<1> DEFINE put == {<<"groups", g[1], g[2]>> : g \in P}
           gone == {<<"groups", g[1], g[2]>> : g \in G}
<1>1. ASSUME NEW k \in DOMAIN c, <<<<"groups", k[1], k[2]>>, c[k]>> \notin GroupsFiled(d)
      PROVE  k \in P \cup G
  BY <1>1 DEF GroupsFiled, Told
<1>2. ASSUME NEW k \in DOMAIN d, <<<<"groups", k[1], k[2]>>, d[k]>> \notin GroupsFiled(c)
      PROVE  k \in P \cup G
  BY <1>2 DEF GroupsFiled, Told
<1>3. \A path \in Changed(GroupsFiled(c), GroupsFiled(d)) :
        \E k \in P \cup G : path = <<"groups", k[1], k[2]>>
  BY <1>1, <1>2 DEF Changed, Paths, GroupsFiled
<1>4. \A path \in Changed(GroupsFiled(c), GroupsFiled(d)) : Covers(put \cup gone, path)
  BY <1>3 DEF Covers
<1>5. Paths(GroupsFiled(d)) = {<<"groups", g[1], g[2]>> : g \in DOMAIN d}
  <2>1. \A e \in GroupsFiled(d) : \E g \in DOMAIN d : e[1] = <<"groups", g[1], g[2]>>
    BY DEF GroupsFiled
  <2>2. ASSUME NEW g \in DOMAIN d
        PROVE  \E e \in GroupsFiled(d) : e[1] = <<"groups", g[1], g[2]>>
    <3>1. /\ <<<<"groups", g[1], g[2]>>, d[g]>> \in GroupsFiled(d)
          /\ <<<<"groups", g[1], g[2]>>, d[g]>>[1] = <<"groups", g[1], g[2]>>
      BY DEF GroupsFiled
    <3> QED BY <3>1
  <2> QED BY <2>1, <2>2 DEF Paths
<1>6. put \subseteq Paths(GroupsFiled(d))
  BY <1>5 DEF Told
<1>7. gone \cap Paths(GroupsFiled(d)) = {}
  <2>1. \A g \in G, h \in DOMAIN d :
          <<"groups", g[1], g[2]>> = <<"groups", h[1], h[2]>> => g[1] = h[1] /\ g[2] = h[2]
    OBVIOUS
  <2>2. \A g \in G, h \in DOMAIN d : <<g[1], g[2]>> # <<h[1], h[2]>>
    BY DEF Told
  <2> QED BY <1>5, <2>1, <2>2
<1> QED BY <1>4, <1>6, <1>7 DEF Tells

(* A page stands for the widgets on it.                                    *)
LEMMA ToldPages ==
  ASSUME NEW c, NEW d, NEW P, NEW G, Told(c, d, P, G)
  PROVE  Tells(PagesFiled(c) \cup WidgetsFiled(c), PagesFiled(d) \cup WidgetsFiled(d),
               Named("pages", P), Named("pages", G))
<1> DEFINE A == PagesFiled(c) \cup WidgetsFiled(c)
           B == PagesFiled(d) \cup WidgetsFiled(d)
           paths == Named("pages", P) \cup Named("pages", G)
<1>1. ASSUME NEW k \in DOMAIN c, k \notin P \cup G
      PROVE  k \in DOMAIN d /\ c[k] = d[k]
  BY <1>1 DEF Told
<1>2. ASSUME NEW k \in DOMAIN d, k \notin P \cup G
      PROVE  k \in DOMAIN c /\ c[k] = d[k]
  BY <1>2 DEF Told
<1>3. ASSUME NEW e \in PagesFiled(c) \ B PROVE Covers(paths, e[1])
  <2>1. PICK k \in DOMAIN c : e = <<<<"pages", k>>, c[k].note>>
    BY <1>3 DEF PagesFiled
  <2>2. k \in P \cup G
    BY <1>1, <1>3, <2>1 DEF PagesFiled
  <2> QED BY <2>1, <2>2 DEF Covers, Named
<1>4. ASSUME NEW e \in PagesFiled(d) \ A PROVE Covers(paths, e[1])
  <2>1. PICK k \in DOMAIN d : e = <<<<"pages", k>>, d[k].note>>
    BY <1>4 DEF PagesFiled
  <2>2. k \in P \cup G
    BY <1>2, <1>4, <2>1 DEF PagesFiled
  <2> QED BY <2>1, <2>2 DEF Covers, Named
<1>5. ASSUME NEW e \in WidgetsFiled(c) \ B PROVE Covers(paths, e[1])
  <2>1. PICK k \in DOMAIN c : \E x \in DOMAIN c[k].widgets :
          e = <<<<"widgets", k, x>>, c[k].widgets[x]>>
    BY <1>5 DEF WidgetsFiled
  <2>2. k \in P \cup G
    BY <1>1, <1>5, <2>1 DEF WidgetsFiled
  <2>3. e[1][1] = "widgets" /\ e[1][2] = k
    BY <2>1
  <2> QED BY <2>2, <2>3 DEF Covers, Named
<1>6. ASSUME NEW e \in WidgetsFiled(d) \ A PROVE Covers(paths, e[1])
  <2>1. PICK k \in DOMAIN d : \E x \in DOMAIN d[k].widgets :
          e = <<<<"widgets", k, x>>, d[k].widgets[x]>>
    BY <1>6 DEF WidgetsFiled
  <2>2. k \in P \cup G
    BY <1>2, <1>6, <2>1 DEF WidgetsFiled
  <2>3. e[1][1] = "widgets" /\ e[1][2] = k
    BY <2>1
  <2> QED BY <2>2, <2>3 DEF Covers, Named
<1>7. \A path \in Changed(A, B) : Covers(paths, path)
  BY <1>3, <1>4, <1>5, <1>6 DEF Changed, Paths
<1>8. Named("pages", P) \subseteq Paths(B)
  <2>1. ASSUME NEW k \in P PROVE <<"pages", k>> \in Paths(B)
    <3>1. k \in DOMAIN d
      BY DEF Told
    <3>2. <<<<"pages", k>>, d[k].note>> \in B /\ <<<<"pages", k>>, d[k].note>>[1] = <<"pages", k>>
      BY <3>1 DEF PagesFiled
    <3> QED BY <3>2 DEF Paths
  <2> QED BY <2>1 DEF Named
<1>9. Named("pages", G) \cap Paths(B) = {}
  <2>1. ASSUME NEW k \in G, NEW e \in B, e[1] = <<"pages", k>> PROVE FALSE
    <3>1. e \in PagesFiled(d)
      BY <2>1, FiledNames
    <3>2. PICK p \in DOMAIN d : e[1] = <<"pages", p>>
      BY <3>1 DEF PagesFiled
    <3>3. k = p
      BY <2>1, <3>2
    <3> QED BY <3>3 DEF Told
  <2> QED BY <2>1 DEF Named, Paths
<1> QED BY <1>7, <1>8, <1>9 DEF Tells

LEMMA ToldWidgets ==
  ASSUME NEW c, NEW d, NEW p \in DOMAIN c, NEW P, NEW G,
         DOMAIN d = DOMAIN c, \A q \in DOMAIN c : q # p => d[q] = c[q],
         d[p].note = c[p].note, Told(c[p].widgets, d[p].widgets, P, G)
  PROVE  Tells(PagesFiled(c) \cup WidgetsFiled(c), PagesFiled(d) \cup WidgetsFiled(d),
               {<<"widgets", p, x>> : x \in P}, {<<"widgets", p, x>> : x \in G})
<1> DEFINE A == PagesFiled(c) \cup WidgetsFiled(c)
           B == PagesFiled(d) \cup WidgetsFiled(d)
           put == {<<"widgets", p, x>> : x \in P}
           gone == {<<"widgets", p, x>> : x \in G}
<1>1. PagesFiled(c) = PagesFiled(d)
  <2>1. \A q \in DOMAIN c : d[q].note = c[q].note
    OBVIOUS
  <2> QED BY <2>1 DEF PagesFiled
<1>2. ASSUME NEW e \in WidgetsFiled(c) \ B PROVE Covers(put \cup gone, e[1])
  <2>1. PICK k \in DOMAIN c : \E x \in DOMAIN c[k].widgets :
          e = <<<<"widgets", k, x>>, c[k].widgets[x]>>
    BY <1>2 DEF WidgetsFiled
  <2>2. PICK x \in DOMAIN c[k].widgets : e = <<<<"widgets", k, x>>, c[k].widgets[x]>>
    BY <2>1
  <2>3. k = p
    BY <1>2, <2>2 DEF WidgetsFiled
  <2>4. x \in P \cup G
    BY <1>2, <2>2, <2>3 DEF WidgetsFiled, Told
  <2> QED BY <2>2, <2>3, <2>4 DEF Covers
<1>3. ASSUME NEW e \in WidgetsFiled(d) \ A PROVE Covers(put \cup gone, e[1])
  <2>1. PICK k \in DOMAIN d : \E x \in DOMAIN d[k].widgets :
          e = <<<<"widgets", k, x>>, d[k].widgets[x]>>
    BY <1>3 DEF WidgetsFiled
  <2>2. PICK x \in DOMAIN d[k].widgets : e = <<<<"widgets", k, x>>, d[k].widgets[x]>>
    BY <2>1
  <2>3. k = p
    BY <1>3, <2>2 DEF WidgetsFiled
  <2>4. x \in P \cup G
    BY <1>3, <2>2, <2>3 DEF WidgetsFiled, Told
  <2> QED BY <2>2, <2>3, <2>4 DEF Covers
<1>4. \A path \in Changed(A, B) : Covers(put \cup gone, path)
  BY <1>1, <1>2, <1>3 DEF Changed, Paths
<1>5. put \subseteq Paths(B)
  <2>1. ASSUME NEW x \in P PROVE <<"widgets", p, x>> \in Paths(B)
    <3>1. x \in DOMAIN d[p].widgets
      BY DEF Told
    <3> DEFINE e == <<<<"widgets", p, x>>, d[p].widgets[x]>>
    <3>2. e \in B /\ e[1] = <<"widgets", p, x>>
      BY <3>1 DEF WidgetsFiled
    <3> QED BY <3>2 DEF Paths
  <2> QED BY <2>1
<1>6. gone \cap Paths(B) = {}
  <2>1. ASSUME NEW x \in G, NEW e \in B, e[1] = <<"widgets", p, x>> PROVE FALSE
    <3>1. e \in WidgetsFiled(d)
      BY <2>1, FiledNames
    <3>2. PICK q \in DOMAIN d : \E y \in DOMAIN d[q].widgets : e[1] = <<"widgets", q, y>>
      BY <3>1 DEF WidgetsFiled
    <3>3. PICK y \in DOMAIN d[q].widgets : e[1] = <<"widgets", q, y>>
      BY <3>2
    <3>4. q = p /\ y = x
      BY <2>1, <3>3
    <3> QED BY <3>3, <3>4 DEF Told
  <2> QED BY <2>1 DEF Paths
<1> QED BY <1>4, <1>5, <1>6 DEF Tells

-----------------------------------------------------------------------------
(* Nothing a project holds is lost if each collection retains its own.     *)
Retains(c, d) ==
  /\ DOMAIN c \subseteq DOMAIN d
  /\ \A k \in DOMAIN c : c[k].enabled => d[k].enabled
RetainsDays(c, d) ==
  \A t \in DOMAIN c : 1 .. c[t].stored \subseteq 1 .. d[t].stored
RetainsWidgets(c, d) ==
  /\ DOMAIN c \subseteq DOMAIN d
  /\ \A p \in DOMAIN c :
       /\ DOMAIN c[p].widgets \subseteq DOMAIN d[p].widgets
       /\ \A x \in DOMAIN c[p].widgets :
            DOMAIN c[p].widgets[x].bindings \subseteq DOMAIN d[p].widgets[x].bindings
RetainsAll(w, v) ==
  /\ DOMAIN w.points \subseteq DOMAIN v.points
  /\ DOMAIN w.groups \subseteq DOMAIN v.groups
  /\ Retains(w.alarms, v.alarms) /\ Retains(w.histories, v.histories)
  /\ Retains(w.scripts, v.scripts) /\ Retains(w.devices, v.devices)
  /\ RetainsDays(w.histories, v.histories)
  /\ RetainsWidgets(w.pages, v.pages)

(* The entities that can be switched off.                                  *)
Switched(w) ==
  Filed("alarms", w.alarms) \cup Filed("histories", w.histories)
  \cup Filed("scripts", w.scripts) \cup Filed("devices", w.devices)

LEMMA EntitiesOfAKind ==
  ASSUME NEW w
  PROVE  /\ {e \in Entities(w) : e[1][1] \in {"alarms", "histories", "scripts", "devices"}}
               = Switched(w)
         /\ {e \in Entities(w) : e[1][1] = "widgets"} = WidgetsFiled(w.pages)
<1> DEFINE kinds == {"alarms", "histories", "scripts", "devices"}
<1>1. \A e \in Switched(w) : e[1][1] \in kinds
  BY FiledNames DEF Switched
<1>2. \A e \in Entities(w) \ Switched(w) : e[1][1] \notin kinds
  BY EntitiesFiled, FiledNames DEF Switched
<1>3. Switched(w) \subseteq Entities(w)
  BY EntitiesFiled DEF Switched
<1>4. \A e \in Entities(w) \ WidgetsFiled(w.pages) : e[1][1] # "widgets"
  BY EntitiesFiled, FiledNames
<1>5. WidgetsFiled(w.pages) \subseteq Entities(w)
  BY EntitiesFiled
<1>6. \A e \in WidgetsFiled(w.pages) : e[1][1] = "widgets"
  BY FiledNames
<1> QED BY <1>1, <1>2, <1>3, <1>4, <1>5, <1>6

LEMMA RetainedFiled ==
  ASSUME NEW name, NEW c, NEW d
  PROVE  /\ DOMAIN c \subseteq DOMAIN d => Paths(Filed(name, c)) \subseteq Paths(Filed(name, d))
         /\ Retains(c, d) =>
              \A e \in Filed(name, c) :
                e[2].enabled => \E f \in Filed(name, d) : f[1] = e[1] /\ f[2].enabled
<1>1. ASSUME NEW k \in DOMAIN d
      PROVE  /\ <<<<name, k>>, d[k]>> \in Filed(name, d)
             /\ <<<<name, k>>, d[k]>>[1] = <<name, k>> /\ <<<<name, k>>, d[k]>>[2] = d[k]
  BY DEF Filed
<1>2. ASSUME NEW e \in Filed(name, c) 
      PROVE  \E k \in DOMAIN c : e[1] = <<name, k>> /\ e[2] = c[k]
  BY DEF Filed
<1>3. ASSUME DOMAIN c \subseteq DOMAIN d, NEW e \in Filed(name, c)
      PROVE  \E f \in Filed(name, d) : f[1] = e[1]
  BY <1>1, <1>2, <1>3
<1>4. ASSUME Retains(c, d), NEW e \in Filed(name, c), e[2].enabled
      PROVE  \E f \in Filed(name, d) : f[1] = e[1] /\ f[2].enabled
  BY <1>1, <1>2, <1>4 DEF Retains
<1>5. DOMAIN c \subseteq DOMAIN d => Paths(Filed(name, c)) \subseteq Paths(Filed(name, d))
  BY <1>3 DEF Paths
<1> QED BY <1>4, <1>5

LEMMA RetainedPages ==
  ASSUME NEW c, NEW d, RetainsWidgets(c, d)
  PROVE  /\ Paths(PagesFiled(c)) \subseteq Paths(PagesFiled(d))
         /\ \A e \in WidgetsFiled(c) : \E f \in WidgetsFiled(d) :
              f[1] = e[1] /\ DOMAIN e[2].bindings \subseteq DOMAIN f[2].bindings
<1>1. ASSUME NEW e \in PagesFiled(c) PROVE \E f \in PagesFiled(d) : f[1] = e[1]
  <2>1. PICK p \in DOMAIN c : e[1] = <<"pages", p>>
    BY DEF PagesFiled
  <2> DEFINE f == <<<<"pages", p>>, d[p].note>>
  <2>2. f \in PagesFiled(d) /\ f[1] = <<"pages", p>>
    BY DEF PagesFiled, RetainsWidgets
  <2> QED BY <2>1, <2>2
<1>2. ASSUME NEW e \in WidgetsFiled(c)
      PROVE  \E f \in WidgetsFiled(d) :
               f[1] = e[1] /\ DOMAIN e[2].bindings \subseteq DOMAIN f[2].bindings
  <2>1. PICK p \in DOMAIN c : \E x \in DOMAIN c[p].widgets :
          e = <<<<"widgets", p, x>>, c[p].widgets[x]>>
    BY DEF WidgetsFiled
  <2>2. PICK x \in DOMAIN c[p].widgets : e = <<<<"widgets", p, x>>, c[p].widgets[x]>>
    BY <2>1
  <2> DEFINE f == <<<<"widgets", p, x>>, d[p].widgets[x]>>
  <2>3. /\ p \in DOMAIN d /\ x \in DOMAIN d[p].widgets
        /\ DOMAIN c[p].widgets[x].bindings \subseteq DOMAIN d[p].widgets[x].bindings
    BY DEF RetainsWidgets
  <2>4. f \in WidgetsFiled(d) /\ f[1] = <<"widgets", p, x>> /\ f[2] = d[p].widgets[x]
    BY <2>3 DEF WidgetsFiled
  <2>5. e[1] = <<"widgets", p, x>> /\ e[2] = c[p].widgets[x]
    BY <2>2
  <2> HIDE DEF f
  <2> QED BY <2>3, <2>4, <2>5
<1> QED BY <1>1, <1>2 DEF Paths

LEMMA HoldingsRetained ==
  ASSUME NEW w, NEW v, RetainsAll(w, v)
  PROVE  Holdings(w) \subseteq Holdings(v)
<1>1. Paths(Entities(w)) \subseteq Paths(Entities(v))
  <2>1. /\ Paths(Filed("points", w.points)) \subseteq Paths(Filed("points", v.points))
        /\ Paths(Filed("alarms", w.alarms)) \subseteq Paths(Filed("alarms", v.alarms))
        /\ Paths(Filed("histories", w.histories)) \subseteq Paths(Filed("histories", v.histories))
        /\ Paths(Filed("scripts", w.scripts)) \subseteq Paths(Filed("scripts", v.scripts))
        /\ Paths(Filed("devices", w.devices)) \subseteq Paths(Filed("devices", v.devices))
    BY RetainedFiled DEF RetainsAll, Retains
  <2>2. Paths(GroupsFiled(w.groups)) \subseteq Paths(GroupsFiled(v.groups))
    <3>1. ASSUME NEW e \in GroupsFiled(w.groups)
          PROVE  \E f \in GroupsFiled(v.groups) : f[1] = e[1]
      <4>1. PICK g \in DOMAIN w.groups : e[1] = <<"groups", g[1], g[2]>>
        BY DEF GroupsFiled
      <4> DEFINE f == <<<<"groups", g[1], g[2]>>, v.groups[g]>>
      <4>2. f \in GroupsFiled(v.groups) /\ f[1] = <<"groups", g[1], g[2]>>
        BY DEF GroupsFiled, RetainsAll
      <4> QED BY <4>1, <4>2
    <3> QED BY <3>1 DEF Paths
  <2>3. /\ Paths(PagesFiled(w.pages)) \subseteq Paths(PagesFiled(v.pages))
        /\ Paths(WidgetsFiled(w.pages)) \subseteq Paths(WidgetsFiled(v.pages))
    BY RetainedPages DEF RetainsAll, Paths
  <2>4. ASSUME NEW e \in Entities(w) PROVE e[1] \in Paths(Entities(v))
    <3>1. ASSUME NEW A, NEW B, Paths(A) \subseteq Paths(B), B \subseteq Entities(v), e \in A
          PROVE  e[1] \in Paths(Entities(v))
      BY <3>1 DEF Paths
    <3>2. CASE e \in Filed("points", w.points) \cup Filed("alarms", w.alarms)
                     \cup Filed("histories", w.histories)
      BY <2>1, <3>1, <3>2, EntitiesFiled
    <3>3. CASE e \in Filed("scripts", w.scripts) \cup Filed("devices", w.devices)
      BY <2>1, <3>1, <3>3, EntitiesFiled
    <3>4. CASE e \in GroupsFiled(w.groups)
      BY <2>2, <3>1, <3>4, EntitiesFiled
    <3>5. CASE e \in PagesFiled(w.pages) \cup WidgetsFiled(w.pages)
      BY <2>3, <3>1, <3>5, EntitiesFiled
    <3> QED BY <3>2, <3>3, <3>4, <3>5, EntitiesFiled
  <2> QED BY <2>4 DEF Paths
<1> DEFINE Bindings(E) ==
             UNION {{<<"binding", e[1][2], e[1][3], prop>> : prop \in DOMAIN e[2].bindings} :
                      e \in E}
           On(E) == {<<"enabled", e[1]>> : e \in {f \in E : f[2].enabled}}
           Days(c) == UNION {{<<"archive", t, d>> : d \in 1 .. c[t].stored} : t \in DOMAIN c}
<1>2. \A u : Holdings(u) = Paths(Entities(u)) \cup Bindings(WidgetsFiled(u.pages))
                          \cup On(Switched(u)) \cup Days(u.histories)
  <2> TAKE u
  <2> DEFINE kinds == {"alarms", "histories", "scripts", "devices"}
  <2>1. {f \in Entities(u) : f[1][1] \in kinds /\ f[2].enabled}
          = {f \in {e \in Entities(u) : e[1][1] \in kinds} : f[2].enabled}
    OBVIOUS
  <2>2. {f \in Entities(u) : f[1][1] \in kinds /\ f[2].enabled}
          = {f \in Switched(u) : f[2].enabled}
    BY <2>1, EntitiesOfAKind
  <2> QED BY <2>2, EntitiesOfAKind DEF Holdings
<1>3. Bindings(WidgetsFiled(w.pages)) \subseteq Bindings(WidgetsFiled(v.pages))
  <2>1. \A e \in WidgetsFiled(w.pages) : \E f \in WidgetsFiled(v.pages) :
          f[1] = e[1] /\ DOMAIN e[2].bindings \subseteq DOMAIN f[2].bindings
    BY RetainedPages DEF RetainsAll
  <2> QED BY <2>1
<1>4. On(Switched(w)) \subseteq On(Switched(v))
  <2>1. \A e \in Switched(w) :
          e[2].enabled => \E f \in Switched(v) : f[1] = e[1] /\ f[2].enabled
    BY RetainedFiled DEF RetainsAll, Switched
  <2> QED BY <2>1
<1>5. Days(w.histories) \subseteq Days(v.histories)
  BY DEF RetainsAll, RetainsDays, Retains
<1> QED BY <1>1, <1>2, <1>3, <1>4, <1>5

(* One key written, or removed.                                            *)
LEMMA ToldOne ==
  ASSUME NEW S, NEW F, NEW c \in Keyed(S, F), NEW k, NEW v
  PROVE  /\ Told(c, Put(c, k, v), {k}, {})
         /\ k \in DOMAIN c => Told(c, [c EXCEPT ![k] = v], {k}, {})
         /\ Told(c, Del(c, k), {}, {k})
<1>1. c = [j \in DOMAIN c |-> c[j]]
  BY KeyedFacts
<1>2. Told(c, Put(c, k, v), {k}, {})
  BY DEF Told, Put
<1>3. k \in DOMAIN c => Told(c, [c EXCEPT ![k] = v], {k}, {})
  <2> SUFFICES ASSUME k \in DOMAIN c PROVE Told(c, [c EXCEPT ![k] = v], {k}, {})
    OBVIOUS
  <2> DEFINE d == [c EXCEPT ![k] = v]
  <2>1. DOMAIN d = DOMAIN c /\ \A j \in DOMAIN c : j # k => d[j] = c[j]
    BY <1>1
  <2> HIDE DEF d
  <2>2. Told(c, d, {k}, {})
    BY <2>1 DEF Told
  <2> QED BY <2>2 DEF d
<1>4. Told(c, Del(c, k), {}, {k})
  BY DEF Told, Del, Restrict
<1> QED BY <1>2, <1>3, <1>4

LEMMA RetainsOne ==
  ASSUME NEW S, NEW F, NEW c \in Keyed(S, F), NEW k, NEW v
  PROVE  /\ k \notin DOMAIN c => Retains(c, Put(c, k, v)) /\ RetainsDays(c, Put(c, k, v))
         /\ k \in DOMAIN c /\ (c[k].enabled => v.enabled) => Retains(c, [c EXCEPT ![k] = v])
         /\ k \in DOMAIN c /\ v.stored = c[k].stored => RetainsDays(c, [c EXCEPT ![k] = v])
<1>1. c = [j \in DOMAIN c |-> c[j]]
  BY KeyedFacts
<1>2. k \notin DOMAIN c => Retains(c, Put(c, k, v)) /\ RetainsDays(c, Put(c, k, v))
  BY DEF Retains, RetainsDays, Put
<1> DEFINE d == [c EXCEPT ![k] = v]
<1>3. k \in DOMAIN c => DOMAIN d = DOMAIN c /\ d[k] = v /\ \A j \in DOMAIN c : j # k => d[j] = c[j]
  BY <1>1
<1> HIDE DEF d
<1>4. k \in DOMAIN c /\ (c[k].enabled => v.enabled) => Retains(c, d)
  BY <1>3 DEF Retains
<1>5. k \in DOMAIN c /\ v.stored = c[k].stored => RetainsDays(c, d)
  BY <1>3 DEF RetainsDays
<1> QED BY <1>2, <1>4, <1>5 DEF d

LEMMA RetainsSelf ==
  /\ \A c : Retains(c, c) /\ RetainsDays(c, c) /\ RetainsWidgets(c, c)
  /\ \A w : RetainsAll(w, w)
BY DEF Retains, RetainsDays, RetainsWidgets, RetainsAll

LEMMA NamedOne == \A name, k : Named(name, {k}) = {<<name, k>>} /\ Named(name, {}) = {}
BY DEF Named

(* The entities of a world in which one collection is exchanged.           *)
LEMMA FiledTells ==
  ASSUME NEW before, NEW after, NEW name, NEW c, NEW d, NEW R,
         before = Filed(name, c) \cup R, after = Filed(name, d) \cup R,
         \A e \in R : e[1][1] # name, NEW P, NEW G, Told(c, d, P, G)
  PROVE  Tells(before, after, Named(name, P), Named(name, G))
<1> DEFINE names == {name}
           A == Filed(name, c)
           B == Filed(name, d)
           put == Named(name, P)
           gone == Named(name, G)
<1>1. Tells(A, B, put, gone)
  BY ToldFiled
<1>2. (\A e \in R : e[1][1] \notin names) /\ (\A q \in gone : q[1] \in names)
  BY DEF Named
<1> HIDE DEF names, A, B, put, gone
<1>3. Tells(A \cup R, B \cup R, put, gone)
  BY ONLY <1>1, <1>2, TellsOfThese
<1> QED BY <1>3 DEF A, B, put, gone

-----------------------------------------------------------------------------
(* The outcome of a handler on a good world: a good world, no alarm        *)
(* without its point that was not there before, a world_diff that tells    *)
(* the change, and nothing lost but by a tool that is known to.            *)
Keeps(r) ==
  /\ r.world \in GoodWorld
  /\ AlarmsHavePoints => AlarmsHavePointsIn(r.world)
  /\ Tells(Entities(world), Entities(r.world), r.put, r.gone)
  /\ r.tool \in Lossy \/ RetainsAll(world, r.world)

LEMMA Collections ==
  ASSUME world \in GoodWorld
  PROVE  /\ points \in Keyed(Tags, PointOf) /\ alarms \in Keyed(AlarmIds, AlarmOf)
         /\ pages \in Keyed(PageIds, PageOf)
         /\ histories \in Keyed(Tags, HistoryOf)
         /\ scripts \in Keyed(ScriptIds, ScriptOf)
         /\ devices \in Keyed(DeviceIds, DeviceOf)
         /\ groups \in Keyed(PageIds \X GroupIds, GroupOf)
BY DEF GoodWorld, points, alarms, pages, histories, scripts, devices, groups

LEMMA KeepsAnswer ==
  ASSUME world \in GoodWorld, NEW tool
  PROVE  Keeps(Fail(tool)) /\ Keeps(Said(tool))
<1>1. Tells(Entities(world), Entities(world), {}, {})
  BY DEF Tells, Changed, Paths
<1> QED BY <1>1, RetainsSelf DEF Keeps, Fail, Said, Result, AlarmsHavePoints


LEMMA KeepsPoints ==
  ASSUME world \in GoodWorld, NEW c \in Keyed(Tags, PointOf),
         AlarmsHavePoints => \A a \in DOMAIN alarms : alarms[a].tag \in DOMAIN c,
         NEW tool, NEW P, NEW G, Told(points, c, P, G),
         tool \in Lossy \/ G = {}
  PROVE  Keeps(Result(tool, [world EXCEPT !.points = c],
                      Named("points", P), Named("points", G)))
<1> DEFINE w == [world EXCEPT !.points = c]
           rest == Filed("alarms", alarms) \cup Filed("histories", histories)
                   \cup Filed("scripts", scripts) \cup Filed("devices", devices)
                   \cup GroupsFiled(groups) \cup PagesFiled(pages) \cup WidgetsFiled(pages)
<1> USE DEF points, alarms, histories, scripts, devices, groups, pages
<1>1. /\ w \in GoodWorld /\ w.points = c
      /\ w.alarms = alarms /\ w.histories = histories /\ w.scripts = scripts
      /\ w.devices = devices /\ w.groups = groups /\ w.pages = pages
  BY DEF GoodWorld
<1> HIDE DEF w
<1>2. /\ Entities(world) = Filed("points", points) \cup rest
      /\ Entities(w) = Filed("points", c) \cup rest
  BY <1>1, EntitiesFiled
<1>3. \A e \in rest : e[1][1] # "points"
  BY FiledNames
<1> HIDE DEF rest
<1>4. Tells(Entities(world), Entities(w), Named("points", P), Named("points", G))
  BY <1>2, <1>3, FiledTells
<1>5. tool \in Lossy \/ RetainsAll(world, w)
  <2>1. G = {} => DOMAIN points \subseteq DOMAIN c
    BY DEF Told
  <2> QED BY <1>1, <2>1, RetainsSelf DEF RetainsAll
<1>6. AlarmsHavePoints => AlarmsHavePointsIn(w)
  BY <1>1 DEF AlarmsHavePoints, AlarmsHavePointsIn
<1> QED BY <1>1, <1>4, <1>5, <1>6 DEF Keeps, Result, w

LEMMA KeepsAlarms ==
  ASSUME world \in GoodWorld, NEW c \in Keyed(AlarmIds, AlarmOf),
         AlarmsHavePoints => \A a \in DOMAIN c : c[a].tag \in DOMAIN points,
         NEW tool, NEW P, NEW G, Told(alarms, c, P, G),
         tool \in Lossy \/ Retains(alarms, c)
  PROVE  Keeps(Result(tool, [world EXCEPT !.alarms = c],
                      Named("alarms", P), Named("alarms", G)))
<1> DEFINE w == [world EXCEPT !.alarms = c]
           rest == Filed("points", points) \cup Filed("histories", histories)
                   \cup Filed("scripts", scripts) \cup Filed("devices", devices)
                   \cup GroupsFiled(groups) \cup PagesFiled(pages) \cup WidgetsFiled(pages)
<1> USE DEF points, alarms, histories, scripts, devices, groups, pages
<1>1. /\ w \in GoodWorld /\ w.alarms = c
      /\ w.points = points /\ w.histories = histories /\ w.scripts = scripts
      /\ w.devices = devices /\ w.groups = groups /\ w.pages = pages
  BY DEF GoodWorld
<1> HIDE DEF w
<1>2. /\ Entities(world) = Filed("alarms", alarms) \cup rest
      /\ Entities(w) = Filed("alarms", c) \cup rest
  BY <1>1, EntitiesFiled
<1>3. \A e \in rest : e[1][1] # "alarms"
  BY FiledNames
<1> HIDE DEF rest
<1>4. Tells(Entities(world), Entities(w), Named("alarms", P), Named("alarms", G))
  BY <1>2, <1>3, FiledTells
<1>5. tool \in Lossy \/ RetainsAll(world, w)
  BY <1>1, RetainsSelf DEF RetainsAll
<1>6. AlarmsHavePoints => AlarmsHavePointsIn(w)
  BY <1>1 DEF AlarmsHavePoints, AlarmsHavePointsIn
<1> QED BY <1>1, <1>4, <1>5, <1>6 DEF Keeps, Result, w

LEMMA KeepsHistories ==
  ASSUME world \in GoodWorld, NEW c \in Keyed(Tags, HistoryOf),
         NEW tool, NEW P, NEW G, Told(histories, c, P, G),
         tool \in Lossy \/ (Retains(histories, c) /\ RetainsDays(histories, c))
  PROVE  Keeps(Result(tool, [world EXCEPT !.histories = c],
                      Named("histories", P), Named("histories", G)))
<1> DEFINE w == [world EXCEPT !.histories = c]
           rest == Filed("points", points) \cup Filed("alarms", alarms)
                   \cup Filed("scripts", scripts) \cup Filed("devices", devices)
                   \cup GroupsFiled(groups) \cup PagesFiled(pages) \cup WidgetsFiled(pages)
<1> USE DEF points, alarms, histories, scripts, devices, groups, pages
<1>1. /\ w \in GoodWorld /\ w.histories = c
      /\ w.points = points /\ w.alarms = alarms /\ w.scripts = scripts
      /\ w.devices = devices /\ w.groups = groups /\ w.pages = pages
  BY DEF GoodWorld
<1> HIDE DEF w
<1>2. /\ Entities(world) = Filed("histories", histories) \cup rest
      /\ Entities(w) = Filed("histories", c) \cup rest
  BY <1>1, EntitiesFiled
<1>3. \A e \in rest : e[1][1] # "histories"
  BY FiledNames
<1> HIDE DEF rest
<1>4. Tells(Entities(world), Entities(w), Named("histories", P), Named("histories", G))
  BY <1>2, <1>3, FiledTells
<1>5. tool \in Lossy \/ RetainsAll(world, w)
  BY <1>1, RetainsSelf DEF RetainsAll
<1>6. AlarmsHavePoints => AlarmsHavePointsIn(w)
  BY <1>1 DEF AlarmsHavePoints, AlarmsHavePointsIn
<1> QED BY <1>1, <1>4, <1>5, <1>6 DEF Keeps, Result, w

LEMMA KeepsScripts ==
  ASSUME world \in GoodWorld, NEW c \in Keyed(ScriptIds, ScriptOf),
         NEW tool, NEW P, NEW G, Told(scripts, c, P, G),
         tool \in Lossy \/ Retains(scripts, c)
  PROVE  Keeps(Result(tool, [world EXCEPT !.scripts = c],
                      Named("scripts", P), Named("scripts", G)))
<1> DEFINE w == [world EXCEPT !.scripts = c]
           rest == Filed("points", points) \cup Filed("alarms", alarms)
                   \cup Filed("histories", histories) \cup Filed("devices", devices)
                   \cup GroupsFiled(groups) \cup PagesFiled(pages) \cup WidgetsFiled(pages)
<1> USE DEF points, alarms, histories, scripts, devices, groups, pages
<1>1. /\ w \in GoodWorld /\ w.scripts = c
      /\ w.points = points /\ w.alarms = alarms /\ w.histories = histories
      /\ w.devices = devices /\ w.groups = groups /\ w.pages = pages
  BY DEF GoodWorld
<1> HIDE DEF w
<1>2. /\ Entities(world) = Filed("scripts", scripts) \cup rest
      /\ Entities(w) = Filed("scripts", c) \cup rest
  BY <1>1, EntitiesFiled
<1>3. \A e \in rest : e[1][1] # "scripts"
  BY FiledNames
<1> HIDE DEF rest
<1>4. Tells(Entities(world), Entities(w), Named("scripts", P), Named("scripts", G))
  BY <1>2, <1>3, FiledTells
<1>5. tool \in Lossy \/ RetainsAll(world, w)
  BY <1>1, RetainsSelf DEF RetainsAll
<1>6. AlarmsHavePoints => AlarmsHavePointsIn(w)
  BY <1>1 DEF AlarmsHavePoints, AlarmsHavePointsIn
<1> QED BY <1>1, <1>4, <1>5, <1>6 DEF Keeps, Result, w

LEMMA KeepsDevices ==
  ASSUME world \in GoodWorld, NEW c \in Keyed(DeviceIds, DeviceOf),
         NEW tool, NEW P, NEW G, Told(devices, c, P, G),
         tool \in Lossy \/ Retains(devices, c)
  PROVE  Keeps(Result(tool, [world EXCEPT !.devices = c],
                      Named("devices", P), Named("devices", G)))
<1> DEFINE w == [world EXCEPT !.devices = c]
           rest == Filed("points", points) \cup Filed("alarms", alarms)
                   \cup Filed("histories", histories) \cup Filed("scripts", scripts)
                   \cup GroupsFiled(groups) \cup PagesFiled(pages) \cup WidgetsFiled(pages)
<1> USE DEF points, alarms, histories, scripts, devices, groups, pages
<1>1. /\ w \in GoodWorld /\ w.devices = c
      /\ w.points = points /\ w.alarms = alarms /\ w.histories = histories
      /\ w.scripts = scripts /\ w.groups = groups /\ w.pages = pages
  BY DEF GoodWorld
<1> HIDE DEF w
<1>2. /\ Entities(world) = Filed("devices", devices) \cup rest
      /\ Entities(w) = Filed("devices", c) \cup rest
  BY <1>1, EntitiesFiled
<1>3. \A e \in rest : e[1][1] # "devices"
  BY FiledNames
<1> HIDE DEF rest
<1>4. Tells(Entities(world), Entities(w), Named("devices", P), Named("devices", G))
  BY <1>2, <1>3, FiledTells
<1>5. tool \in Lossy \/ RetainsAll(world, w)
  BY <1>1, RetainsSelf DEF RetainsAll
<1>6. AlarmsHavePoints => AlarmsHavePointsIn(w)
  BY <1>1 DEF AlarmsHavePoints, AlarmsHavePointsIn
<1> QED BY <1>1, <1>4, <1>5, <1>6 DEF Keeps, Result, w

LEMMA KeepsPages ==
  ASSUME world \in GoodWorld, NEW c \in Keyed(PageIds, PageOf), NEW tool, NEW put, NEW gone,
         Tells(PagesFiled(pages) \cup WidgetsFiled(pages), PagesFiled(c) \cup WidgetsFiled(c),
               put, gone),
         \A q \in gone : q[1] \in {"pages", "widgets"},
         tool \in Lossy \/ RetainsWidgets(pages, c)
  PROVE  Keeps(Result(tool, [world EXCEPT !.pages = c], put, gone))
<1> DEFINE w == [world EXCEPT !.pages = c]
           rest == Filed("points", points) \cup Filed("alarms", alarms)
                   \cup Filed("histories", histories) \cup Filed("scripts", scripts)
                   \cup Filed("devices", devices) \cup GroupsFiled(groups)
           names == {"pages", "widgets"}
           A == PagesFiled(pages) \cup WidgetsFiled(pages)
           B == PagesFiled(c) \cup WidgetsFiled(c)
<1> USE DEF points, alarms, histories, scripts, devices, groups, pages
<1>1. /\ w \in GoodWorld /\ w.pages = c
      /\ w.points = points /\ w.alarms = alarms /\ w.histories = histories
      /\ w.scripts = scripts /\ w.devices = devices /\ w.groups = groups
  BY DEF GoodWorld
<1> HIDE DEF w
<1>2. Entities(world) = A \cup rest /\ Entities(w) = B \cup rest
  BY <1>1, EntitiesFiled
<1>3. (\A e \in rest : e[1][1] \notin names) /\ (\A q \in gone : q[1] \in names)
  BY FiledNames
<1>4. Tells(A, B, put, gone)
  OBVIOUS
<1> HIDE DEF rest, names, A, B
<1>5. Tells(Entities(world), Entities(w), put, gone)
  <2>1. Tells(A \cup rest, B \cup rest, put, gone)
    BY ONLY <1>3, <1>4, TellsOfThese
  <2> QED BY <1>2, <2>1
<1>6. tool \in Lossy \/ RetainsAll(world, w)
  BY <1>1, RetainsSelf DEF RetainsAll
<1>7. AlarmsHavePoints => AlarmsHavePointsIn(w)
  BY <1>1 DEF AlarmsHavePoints, AlarmsHavePointsIn
<1> QED BY <1>1, <1>5, <1>6, <1>7 DEF Keeps, Result, w

LEMMA KeepsGroups ==
  ASSUME world \in GoodWorld, NEW c \in Keyed(PageIds \X GroupIds, GroupOf), NEW tool,
         NEW P \in SUBSET (PageIds \X GroupIds), NEW G \in SUBSET (PageIds \X GroupIds),
         Told(groups, c, P, G), tool \in Lossy \/ DOMAIN groups \subseteq DOMAIN c
  PROVE  Keeps(Result(tool, [world EXCEPT !.groups = c],
                      {<<"groups", g[1], g[2]>> : g \in P},
                      {<<"groups", g[1], g[2]>> : g \in G}))
<1> DEFINE w == [world EXCEPT !.groups = c]
           rest == Filed("points", points) \cup Filed("alarms", alarms)
                   \cup Filed("histories", histories) \cup Filed("scripts", scripts)
                   \cup Filed("devices", devices) \cup PagesFiled(pages) \cup WidgetsFiled(pages)
           names == {"groups"}
           A == GroupsFiled(groups)
           B == GroupsFiled(c)
           put == {<<"groups", g[1], g[2]>> : g \in P}
           gone == {<<"groups", g[1], g[2]>> : g \in G}
<1>a. Tells(A, B, put, gone)
  <2>1. DOMAIN groups \subseteq PageIds \X GroupIds /\ DOMAIN c \subseteq PageIds \X GroupIds
    BY Collections, KeyedFacts
  <2>2. \A g \in PageIds \X GroupIds : g = <<g[1], g[2]>>
    OBVIOUS
  <2>3. \A g \in DOMAIN groups \cup DOMAIN c \cup P \cup G : g = <<g[1], g[2]>>
    BY <2>1, <2>2
  <2> QED BY <2>3, ToldGroups
<1> USE DEF points, alarms, histories, scripts, devices, groups, pages
<1>1. /\ w \in GoodWorld /\ w.groups = c
      /\ w.points = points /\ w.alarms = alarms /\ w.histories = histories
      /\ w.scripts = scripts /\ w.devices = devices /\ w.pages = pages
  BY DEF GoodWorld
<1> HIDE DEF w
<1>2. Entities(world) = A \cup rest /\ Entities(w) = B \cup rest
  BY <1>1, EntitiesFiled
<1>3. (\A e \in rest : e[1][1] \notin names) /\ (\A q \in gone : q[1] \in names)
  BY FiledNames
<1> HIDE DEF rest, names, A, B, put, gone
<1>5. Tells(Entities(world), Entities(w), put, gone)
  <2>1. Tells(A \cup rest, B \cup rest, put, gone)
    BY ONLY <1>3, <1>a, TellsOfThese
  <2> QED BY <1>2, <2>1
<1>6. tool \in Lossy \/ RetainsAll(world, w)
  BY <1>1, RetainsSelf DEF RetainsAll
<1>7. AlarmsHavePoints => AlarmsHavePointsIn(w)
  BY <1>1 DEF AlarmsHavePoints, AlarmsHavePointsIn
<1> QED BY <1>1, <1>5, <1>6, <1>7 DEF Keeps, Result, w, put, gone

-----------------------------------------------------------------------------
(* manage_points *)
LEMMA EditedPoint ==
  ASSUME world \in GoodWorld, NEW t \in DOMAIN points, NEW v \in Point, v.tag = t, NEW tool
  PROVE  Keeps(Result(tool, [world EXCEPT !.points = [points EXCEPT ![t] = v]],
                      {<<"points", t>>}, {}))
<1>1. points \in Keyed(Tags, PointOf)
  BY Collections
<1>2. t \in Tags /\ v \in PointOf[t]
  BY <1>1, KeyedFacts DEF PointOf
<1> DEFINE c == [points EXCEPT ![t] = v]
<1>3. c \in Keyed(Tags, PointOf) /\ DOMAIN c = DOMAIN points
  BY <1>1, <1>2, KeyedEdit
<1>6. Told(points, c, {t}, {})
  BY <1>1, ToldOne
<1> HIDE DEF c
<1>4. AlarmsHavePoints => \A a \in DOMAIN alarms : alarms[a].tag \in DOMAIN c
  BY <1>3 DEF AlarmsHavePoints, AlarmsHavePointsIn, alarms, points
<1>5. Keeps(Result(tool, [world EXCEPT !.points = c],
                    Named("points", {t}), Named("points", {})))
  BY <1>3, <1>4, <1>6, KeepsPoints
<1> QED BY <1>5, NamedOne DEF c

LEMMA APoint ==
  ASSUME world \in GoodWorld, NEW t \in DOMAIN points
  PROVE  t \in Tags /\ points[t] \in Point /\ points[t].tag = t
BY Collections, KeyedFacts DEF PointOf

LEMMA PutPoint ==
  ASSUME world \in GoodWorld, NEW t \in Tags, NEW v \in Point, v.tag = t, NEW tool
  PROVE  Keeps(Result(tool, WithPoints(Put(points, t, v)), {<<"points", t>>}, {}))
<1>1. points \in Keyed(Tags, PointOf) /\ v \in PointOf[t]
  BY Collections DEF PointOf
<1> DEFINE c == Put(points, t, v)
<1>2. c \in Keyed(Tags, PointOf) /\ DOMAIN points \subseteq DOMAIN c
  <2>1. /\ Put(points, t, v) \in Keyed(Tags, PointOf)
        /\ DOMAIN Put(points, t, v) = DOMAIN points \cup {t}
    BY <1>1, KeyedPut DEF Put
  <2> QED BY <2>1
<1>5. Told(points, c, {t}, {})
  BY <1>1, ToldOne
<1> HIDE DEF c
<1>3. AlarmsHavePoints => \A a \in DOMAIN alarms : alarms[a].tag \in DOMAIN c
  BY <1>2 DEF AlarmsHavePoints, AlarmsHavePointsIn, alarms, points
<1>4. Keeps(Result(tool, [world EXCEPT !.points = c],
                    Named("points", {t}), Named("points", {})))
  BY <1>2, <1>3, <1>5, KeepsPoints
<1> QED BY <1>4, NamedOne DEF c, WithPoints

(* Only tags no alarm watches are removed. *)
LEMMA RestrictPoints ==
  ASSUME world \in GoodWorld, NEW D \in SUBSET DOMAIN points,
         \A t \in DOMAIN points \ D : ~Alarmed(t), NEW tool \in Lossy
  PROVE  Keeps(Result(tool, WithPoints(Restrict(points, D)),
                      {}, Named("points", DOMAIN points \ D)))
<1>1. points \in Keyed(Tags, PointOf)
  BY Collections
<1> DEFINE c == Restrict(points, D)
<1>2. c \in Keyed(Tags, PointOf) /\ DOMAIN c = D /\ \A j \in D : c[j] = points[j]
  BY <1>1, KeyedRestrict
<1> HIDE DEF c
<1>3. AlarmsHavePoints => \A a \in DOMAIN alarms : alarms[a].tag \in DOMAIN c
  BY <1>2 DEF AlarmsHavePoints, AlarmsHavePointsIn, Alarmed, alarms, points
<1> DEFINE G == DOMAIN points \ D
<1>5. Told(points, c, {}, G)
  BY <1>2 DEF Told
<1> HIDE DEF G
<1>4. Keeps(Result(tool, [world EXCEPT !.points = c],
                    Named("points", {}), Named("points", G)))
  BY <1>2, <1>3, <1>5, KeepsPoints
<1> QED BY <1>4, NamedOne DEF c, G, WithPoints

LEMMA PointEdits ==
  ASSUME world \in GoodWorld
  PROVE  /\ \A tool, t, n : t \in Tags /\ n \in Notes => Keeps(SetPoint(tool, t, n))
         /\ \A t \in Tags, ty \in PointTypes : Keeps(SetPointType(t, ty))
<1>1. ASSUME NEW tool, NEW t \in Tags, NEW n \in Notes PROVE Keeps(SetPoint(tool, t, n))
  <2>1. CASE t \notin DOMAIN points
    BY <2>1, KeepsAnswer DEF SetPoint
  <2>2. CASE t \in DOMAIN points
    <3> DEFINE v == [points[t] EXCEPT !.note = n]
    <3>1. v \in Point /\ v.tag = t
      BY <2>2, APoint DEF Point
    <3>2. [world EXCEPT !.points[t].note = n] = [world EXCEPT !.points = [points EXCEPT ![t] = v]]
      BY DEF points
    <3> HIDE DEF v
    <3> QED BY <2>2, <3>1, <3>2, EditedPoint DEF SetPoint
  <2> QED BY <2>1, <2>2
<1>2. ASSUME NEW t \in Tags, NEW ty \in PointTypes PROVE Keeps(SetPointType(t, ty))
  <2>1. CASE t \notin DOMAIN points
    BY <2>1, KeepsAnswer DEF SetPointType
  <2>2. CASE t \in DOMAIN points
    <3> DEFINE v == [points[t] EXCEPT !.type = ty]
    <3>1. v \in Point /\ v.tag = t
      BY <2>2, APoint DEF Point
    <3>2. [world EXCEPT !.points[t].type = ty] = [world EXCEPT !.points = [points EXCEPT ![t] = v]]
      BY DEF points
    <3> HIDE DEF v
    <3> QED BY <2>2, <3>1, <3>2, EditedPoint DEF SetPointType
  <2> QED BY <2>1, <2>2
<1> QED BY <1>1, <1>2

LEMMA PointCreations ==
  ASSUME world \in GoodWorld
  PROVE  /\ \A t \in Tags, ty \in PointTypes, n \in Notes : Keeps(CreatePoint(t, ty, n))
         /\ \A t, u \in Tags : Keeps(CopyPoint(t, u)) /\ Keeps(RenamePoint(t, u))
<1>1. ASSUME NEW t \in Tags, NEW ty \in PointTypes, NEW n \in Notes
      PROVE  Keeps(CreatePoint(t, ty, n))
  <2> DEFINE v == [tag |-> t, type |-> ty, note |-> n]
  <2>1. v \in Point /\ v.tag = t
    BY DEF Point
  <2> HIDE DEF v
  <2>2. Keeps(Result("create_point", WithPoints(Put(points, t, v)), {<<"points", t>>}, {}))
    BY <2>1, PutPoint
  <2> QED BY <2>2, KeepsAnswer DEF CreatePoint, v
<1>2. ASSUME NEW t \in Tags, NEW u \in Tags PROVE Keeps(CopyPoint(t, u))
  <2>1. CASE t \notin DOMAIN points \/ u \in DOMAIN points
    BY <2>1, KeepsAnswer DEF CopyPoint
  <2>2. CASE t \in DOMAIN points /\ u \notin DOMAIN points
    <3> DEFINE v == [points[t] EXCEPT !.tag = u]
    <3>1. v \in Point /\ v.tag = u
      BY <2>2, APoint DEF Point
    <3> HIDE DEF v
    <3>2. Keeps(Result("copy_point", WithPoints(Put(points, u, v)), {<<"points", u>>}, {}))
      BY <3>1, PutPoint
    <3> QED BY <2>2, <3>2 DEF CopyPoint, v
  <2> QED BY <2>1, <2>2
<1>3. ASSUME NEW t \in Tags, NEW u \in Tags PROVE Keeps(RenamePoint(t, u))
  <2>1. CASE t \notin DOMAIN points \/ u \in DOMAIN points \/ Alarmed(t)
    BY <2>1, KeepsAnswer DEF RenamePoint
  <2>2. CASE t \in DOMAIN points /\ u \notin DOMAIN points /\ ~Alarmed(t)
    <3> DEFINE v == [points[t] EXCEPT !.tag = u]
               d == Del(points, t)
               c == Put(d, u, v)
    <3>1. v \in PointOf[u]
      BY <2>2, APoint DEF Point, PointOf
    <3>2. points \in Keyed(Tags, PointOf)
      BY Collections
    <3> HIDE DEF v
    <3>3. d \in Keyed(Tags, PointOf) /\ DOMAIN d = DOMAIN points \ {t}
      <4>1. DOMAIN points \ {t} \in SUBSET DOMAIN points
        OBVIOUS
      <4> QED BY <3>2, <4>1, KeyedRestrict DEF Del
    <3> HIDE DEF d
    <3>4. c \in Keyed(Tags, PointOf) /\ DOMAIN c = (DOMAIN points \ {t}) \cup {u}
      BY <3>1, <3>3, KeyedPut
    <3>7. Told(points, c, {u}, {t})
      BY <2>2 DEF Told, Put, Del, Restrict, c, d
    <3> HIDE DEF c
    <3>5. AlarmsHavePoints => \A a \in DOMAIN alarms : alarms[a].tag \in DOMAIN c
      BY <2>2, <3>4 DEF AlarmsHavePoints, AlarmsHavePointsIn, Alarmed, alarms, points
    <3>8. "rename_point" \in Lossy
      BY DEF Lossy, Uncaged
    <3>6. Keeps(Result("rename_point", [world EXCEPT !.points = c],
                       Named("points", {u}), Named("points", {t})))
      BY <3>4, <3>5, <3>7, <3>8, KeepsPoints
    <3> QED BY <2>2, <3>6, NamedOne DEF RenamePoint, WithPoints, c, d, v
  <2> QED BY <2>1, <2>2
<1> QED BY <1>1, <1>2, <1>3

LEMMA PointBatches ==
  ASSUME world \in GoodWorld
  PROVE  /\ \A ts \in SUBSET Tags, ty \in PointTypes, n \in Notes :
              Keeps(BatchCreatePoints(ts, ty, n))
         /\ \A t \in Tags : Keeps(DeletePoint(t))
         /\ \A ts \in SUBSET Tags : Keeps(BatchDeletePoints(ts))
<1>1. ASSUME NEW ts \in SUBSET Tags, NEW ty \in PointTypes, NEW n \in Notes
      PROVE  Keeps(BatchCreatePoints(ts, ty, n))
  <2> DEFINE new == ts \ DOMAIN points
             c == [t \in DOMAIN points \cup new |->
                     IF t \in new THEN [tag |-> t, type |-> ty, note |-> n] ELSE points[t]]
  <2>1. /\ DOMAIN points \subseteq Tags
        /\ \A t \in DOMAIN points : points[t] \in PointOf[t]
    BY Collections, KeyedFacts
  <2>2. ASSUME NEW t \in new PROVE [tag |-> t, type |-> ty, note |-> n] \in PointOf[t]
    BY DEF Point, PointOf
  <2>3. /\ c = [t \in DOMAIN c |-> c[t]] /\ DOMAIN c = DOMAIN points \cup new
        /\ \A t \in DOMAIN c : c[t] \in PointOf[t]
    BY <2>1, <2>2
  <2>7. Told(points, c, new, {})
    BY DEF Told
  <2> HIDE DEF c
  <2>4. c \in Keyed(Tags, PointOf)
    BY <2>1, <2>3, KeyedFunction
  <2>5. AlarmsHavePoints => \A a \in DOMAIN alarms : alarms[a].tag \in DOMAIN c
    BY <2>3 DEF AlarmsHavePoints, AlarmsHavePointsIn, alarms, points
  <2>6. Keeps(Result("batch_create_points", [world EXCEPT !.points = c],
                     Named("points", new), Named("points", {})))
    BY <2>4, <2>5, <2>7, KeepsPoints
  <2> QED BY <2>6, NamedOne DEF BatchCreatePoints, WithPoints, Named, c
<1>2. ASSUME NEW t \in Tags PROVE Keeps(DeletePoint(t))
  <2>1. CASE t \notin DOMAIN points \/ Alarmed(t)
    BY <2>1, KeepsAnswer DEF DeletePoint
  <2>2. CASE t \in DOMAIN points /\ ~Alarmed(t)
    <3> DEFINE D == DOMAIN points \ {t}
    <3>1. D \in SUBSET DOMAIN points /\ \A u \in DOMAIN points \ D : ~Alarmed(u)
      BY <2>2
    <3>3. DOMAIN points \ D = {t}
      BY <2>2
    <3> HIDE DEF D
    <3>4. "delete_point" \in Lossy
      BY DEF Lossy, EnumeratedDestructive
    <3>2. Keeps(Result("delete_point", WithPoints(Restrict(points, D)),
                       {}, Named("points", DOMAIN points \ D)))
      BY <3>1, <3>4, RestrictPoints
    <3> QED BY <2>2, <3>2, <3>3, NamedOne DEF DeletePoint, Del, D
  <2> QED BY <2>1, <2>2
<1>3. ASSUME NEW ts \in SUBSET Tags PROVE Keeps(BatchDeletePoints(ts))
  <2> DEFINE old == {t \in ts \cap DOMAIN points : ~Alarmed(t)}
             D == DOMAIN points \ old
  <2>1. D \in SUBSET DOMAIN points /\ \A u \in DOMAIN points \ D : ~Alarmed(u)
    OBVIOUS
  <2>3. DOMAIN points \ D = old
    OBVIOUS
  <2> HIDE DEF D
  <2>4. "batch_delete_points" \in Lossy
    BY DEF Lossy, PrefixDestructive
  <2>2. Keeps(Result("batch_delete_points", WithPoints(Restrict(points, D)),
                     {}, Named("points", DOMAIN points \ D)))
    BY <2>1, <2>4, RestrictPoints
  <2> QED BY <2>2, <2>3 DEF BatchDeletePoints, Named, D
<1> QED BY <1>1, <1>2, <1>3

LEMMA PointCallsKeep ==
  ASSUME world \in GoodWorld
  PROVE  \A r \in PointCalls : Keeps(r)
<1>1. \A tool : Keeps(Said(tool))
  BY KeepsAnswer
<1>2. \A tool, t, n : t \in Tags /\ n \in Notes => Keeps(SetPointSimulation(tool, t, n))
  BY PointEdits DEF SetPointSimulation
<1> QED BY <1>1, <1>2, PointEdits, PointCreations, PointBatches DEF PointCalls

-----------------------------------------------------------------------------
(* manage_alarms *)
LEMMA AnAlarm ==
  ASSUME world \in GoodWorld, NEW a \in DOMAIN alarms
  PROVE  a \in AlarmIds /\ alarms[a] \in Alarm /\ alarms[a].id = a
BY Collections, KeyedFacts DEF AlarmOf

LEMMA EditedAlarm ==
  ASSUME world \in GoodWorld, NEW a \in DOMAIN alarms, NEW v \in Alarm,
         v.id = a, v.tag = alarms[a].tag, NEW tool,
         tool \in Lossy \/ (alarms[a].enabled => v.enabled)
  PROVE  Keeps(Result(tool, [world EXCEPT !.alarms = [alarms EXCEPT ![a] = v]],
                      {<<"alarms", a>>}, {}))
<1>1. alarms \in Keyed(AlarmIds, AlarmOf)
  BY Collections
<1>2. a \in AlarmIds /\ v \in AlarmOf[a]
  BY <1>1, KeyedFacts DEF AlarmOf
<1> DEFINE c == [alarms EXCEPT ![a] = v]
<1>3. /\ c \in Keyed(AlarmIds, AlarmOf) /\ DOMAIN c = DOMAIN alarms
      /\ \A b \in DOMAIN alarms : c[b] = IF b = a THEN v ELSE alarms[b]
  BY <1>1, <1>2, KeyedEdit
<1>6. Told(alarms, c, {a}, {})
  BY <1>1, ToldOne
<1>7. tool \in Lossy \/ Retains(alarms, c)
  BY <1>1, RetainsOne
<1> HIDE DEF c
<1>4. AlarmsHavePoints => \A b \in DOMAIN c : c[b].tag \in DOMAIN points
  BY <1>3 DEF AlarmsHavePoints, AlarmsHavePointsIn, alarms, points
<1>5. Keeps(Result(tool, [world EXCEPT !.alarms = c],
                    Named("alarms", {a}), Named("alarms", {})))
  BY <1>3, <1>4, <1>6, <1>7, KeepsAlarms
<1> QED BY <1>5, NamedOne DEF c

LEMMA AlarmEdits ==
  ASSUME world \in GoodWorld
  PROVE  /\ \A tool, a, n : a \in AlarmIds /\ n \in Notes => Keeps(SetAlarm(tool, a, n))
         /\ \A a \in AlarmIds, n \in Notes : Keeps(SetThreshold(a, n))
         /\ \A a \in AlarmIds : Keeps(EnableAlarm(a)) /\ Keeps(DisableAlarm(a))
<1>1. ASSUME NEW tool, NEW a \in DOMAIN alarms, NEW n \in Notes
      PROVE  Keeps(Result(tool, [world EXCEPT !.alarms[a].note = n], {<<"alarms", a>>}, {}))
  <2> DEFINE v == [alarms[a] EXCEPT !.note = n]
  <2>1. v \in Alarm /\ v.id = a /\ v.tag = alarms[a].tag /\ v.enabled = alarms[a].enabled
    BY AnAlarm DEF Alarm
  <2>2. [world EXCEPT !.alarms[a].note = n] = [world EXCEPT !.alarms = [alarms EXCEPT ![a] = v]]
    BY DEF alarms
  <2> HIDE DEF v
  <2> QED BY <2>1, <2>2, EditedAlarm
<1>2. ASSUME NEW tool, NEW a \in AlarmIds, NEW on \in BOOLEAN, tool \in Lossy \/ on
      PROVE  Keeps(SetEnabled(tool, a, on))
  <2>1. CASE a \notin DOMAIN alarms
    BY <2>1, KeepsAnswer DEF SetEnabled
  <2>2. CASE a \in DOMAIN alarms
    <3> DEFINE v == [alarms[a] EXCEPT !.enabled = on]
    <3>1. v \in Alarm /\ v.id = a /\ v.tag = alarms[a].tag /\ v.enabled = on
      BY <2>2, AnAlarm DEF Alarm
    <3>2. [world EXCEPT !.alarms[a].enabled = on] = [world EXCEPT !.alarms = [alarms EXCEPT ![a] = v]]
      BY DEF alarms
    <3> HIDE DEF v
    <3>3. Keeps(Result(tool, [world EXCEPT !.alarms = [alarms EXCEPT ![a] = v]],
                       {<<"alarms", a>>}, {}))
      BY <1>2, <2>2, <3>1, EditedAlarm
    <3> QED BY <2>2, <3>2, <3>3 DEF SetEnabled
  <2> QED BY <2>1, <2>2
<1>3. ASSUME NEW tool, NEW a \in AlarmIds, NEW n \in Notes
      PROVE  Keeps(SetAlarm(tool, a, n)) /\ Keeps(SetThreshold(a, n))
  BY <1>1, KeepsAnswer DEF SetAlarm, SetThreshold
<1>4. "disable_alarm" \in Lossy
  BY DEF Lossy, EnumeratedDestructive
<1>5. \A a \in AlarmIds : Keeps(EnableAlarm(a)) /\ Keeps(DisableAlarm(a))
  BY <1>2, <1>4 DEF EnableAlarm, DisableAlarm
<1> QED BY <1>3, <1>5

LEMMA AlarmCreations ==
  ASSUME world \in GoodWorld
  PROVE  \A a \in AlarmIds, t \in Tags, n \in Notes :
           Keeps(CreateAnalogAlarm(a, t, n)) /\ Keeps(CreateDigitalAlarm(a, t, n))
<1>1. ASSUME NEW tool, NEW ty, NEW a \in AlarmIds, NEW t \in Tags, NEW n \in Notes
      PROVE  Keeps(CreateAlarm(tool, ty, a, t, n))
  <2>1. CASE a \in DOMAIN alarms \/ t \notin DOMAIN points \/ points[t].type # ty
    BY <2>1, KeepsAnswer DEF CreateAlarm
  <2>2. CASE a \notin DOMAIN alarms /\ t \in DOMAIN points /\ points[t].type = ty
    <3> DEFINE v == [id |-> a, tag |-> t, type |-> ty, enabled |-> TRUE, note |-> n]
               c == Put(alarms, a, v)
    <3>1. v \in AlarmOf[a] /\ v.tag = t
      <4>1. ty \in PointTypes
        BY <2>2, APoint DEF Point
      <4> QED BY <4>1 DEF Alarm, AlarmOf
    <3> HIDE DEF v
    <3>2. alarms \in Keyed(AlarmIds, AlarmOf)
      BY Collections
    <3>3. /\ c \in Keyed(AlarmIds, AlarmOf) /\ DOMAIN c = DOMAIN alarms \cup {a}
          /\ \A b \in DOMAIN alarms \cup {a} : c[b] = IF b = a THEN v ELSE alarms[b]
      <4>1. Put(alarms, a, v) \in Keyed(AlarmIds, AlarmOf) /\ a \in AlarmIds
        BY <3>1, <3>2, KeyedPut DEF Put
      <4> QED BY <4>1 DEF Put
    <3>6. Told(alarms, c, {a}, {}) /\ Retains(alarms, c)
      BY <2>2, <3>2, ToldOne, RetainsOne
    <3> HIDE DEF c
    <3>4. AlarmsHavePoints => \A b \in DOMAIN c : c[b].tag \in DOMAIN points
      BY <2>2, <3>1, <3>3 DEF AlarmsHavePoints, AlarmsHavePointsIn, alarms, points
    <3>5. Keeps(Result(tool, [world EXCEPT !.alarms = c],
                       Named("alarms", {a}), Named("alarms", {})))
      BY <3>3, <3>4, <3>6, KeepsAlarms
    <3> QED BY <2>2, <3>5, NamedOne DEF CreateAlarm, c, v
  <2> QED BY <2>1, <2>2
<1> QED BY <1>1 DEF CreateAnalogAlarm, CreateDigitalAlarm

LEMMA AlarmDeletion ==
  ASSUME world \in GoodWorld
  PROVE  \A a \in AlarmIds : Keeps(DeleteAlarm(a))
<1>1. ASSUME NEW a \in AlarmIds PROVE Keeps(DeleteAlarm(a))
  <2> DEFINE D == DOMAIN alarms \ {a}
             c == Restrict(alarms, D)
  <2>5. Told(alarms, c, {}, {a})
    BY Collections, ToldOne DEF Del
  <2>1. D \in SUBSET DOMAIN alarms /\ alarms \in Keyed(AlarmIds, AlarmOf)
    BY Collections
  <2> HIDE DEF D
  <2>2. /\ c \in Keyed(AlarmIds, AlarmOf) /\ DOMAIN c = D
        /\ \A b \in D : c[b] = alarms[b]
    BY <2>1, KeyedRestrict
  <2> HIDE DEF c
  <2>3. AlarmsHavePoints => \A b \in DOMAIN c : c[b].tag \in DOMAIN points
    BY <2>1, <2>2 DEF AlarmsHavePoints, AlarmsHavePointsIn, alarms, points
  <2>6. "delete_alarm" \in Lossy
    BY DEF Lossy, EnumeratedDestructive
  <2>4. Keeps(Result("delete_alarm", [world EXCEPT !.alarms = c],
                     Named("alarms", {}), Named("alarms", {a})))
    BY <2>2, <2>3, <2>5, <2>6, KeepsAlarms
  <2> QED BY <2>4, KeepsAnswer, NamedOne DEF DeleteAlarm, Del, c, D
<1> QED BY <1>1

LEMMA AlarmCallsKeep ==
  ASSUME world \in GoodWorld
  PROVE  \A r \in AlarmCalls : Keeps(r)
<1>1. \A tool : Keeps(Said(tool))
  BY KeepsAnswer
<1>2. \A tool, a, n : a \in AlarmIds /\ n \in Notes =>
        /\ Keeps(SetAlarm(tool, a, n)) /\ Keeps(Annunciate(tool, a, n))
        /\ Keeps(SetAlarmPriority(a, n)) /\ Keeps(SuppressAlarm(a, n))
  BY AlarmEdits DEF Annunciate, SetAlarmPriority, SuppressAlarm
<1> QED BY <1>1, <1>2, AlarmEdits, AlarmCreations, AlarmDeletion DEF AlarmCalls

-----------------------------------------------------------------------------
(* The collections the alarms do not depend on: any edit, creation or      *)
(* deletion of a record that carries its key keeps the world good.         *)
LEMMA HistoryWrites ==
  ASSUME world \in GoodWorld, NEW t \in Tags, NEW tool
  PROVE  /\ t \in DOMAIN histories => histories[t] \in History /\ histories[t].tag = t
         /\ \A v \in HistoryOf[t] :
              /\ tool \in Lossy \/ t \notin DOMAIN histories =>
                   Keeps(Result(tool, [world EXCEPT !.histories = Put(histories, t, v)],
                                {<<"histories", t>>}, {}))
              /\ /\ t \in DOMAIN histories
                 /\ \/ tool \in Lossy
                   \/ /\ histories[t].enabled => v.enabled
                      /\ v.stored = histories[t].stored
                 => Keeps(Result(tool, [world EXCEPT !.histories = [histories EXCEPT ![t] = v]],
                                 {<<"histories", t>>}, {}))
         /\ tool \in Lossy =>
              Keeps(Result(tool, [world EXCEPT !.histories = Del(histories, t)],
                           {}, {<<"histories", t>>}))
<1>1. histories \in Keyed(Tags, HistoryOf)
  BY Collections
<1>2. t \in DOMAIN histories => histories[t] \in History /\ histories[t].tag = t
  BY <1>1, KeyedFacts DEF HistoryOf
<1>3. ASSUME NEW c \in Keyed(Tags, HistoryOf), NEW P, NEW G, Told(histories, c, P, G),
             tool \in Lossy \/ (Retains(histories, c) /\ RetainsDays(histories, c))
      PROVE  Keeps(Result(tool, [world EXCEPT !.histories = c],
                          Named("histories", P), Named("histories", G)))
  BY <1>3, KeepsHistories
<1>4. ASSUME NEW v \in HistoryOf[t], tool \in Lossy \/ t \notin DOMAIN histories
      PROVE  Keeps(Result(tool, [world EXCEPT !.histories = Put(histories, t, v)],
                          {<<"histories", t>>}, {}))
  <2> DEFINE c == Put(histories, t, v)
  <2>1. c \in Keyed(Tags, HistoryOf)
    BY <1>1, KeyedPut DEF Put
  <2>2. Told(histories, c, {t}, {})
    BY <1>1, ToldOne
  <2>3. tool \in Lossy \/ (Retains(histories, c) /\ RetainsDays(histories, c))
    BY <1>1, <1>4, RetainsOne
  <2> HIDE DEF c
  <2>4. Keeps(Result(tool, [world EXCEPT !.histories = c],
                     Named("histories", {t}), Named("histories", {})))
    BY <1>3, <2>1, <2>2, <2>3
  <2> QED BY <2>4, NamedOne DEF c
<1>5. ASSUME NEW v \in HistoryOf[t], t \in DOMAIN histories,
             \/ tool \in Lossy
             \/ /\ histories[t].enabled => v.enabled
                /\ v.stored = histories[t].stored
      PROVE  Keeps(Result(tool, [world EXCEPT !.histories = [histories EXCEPT ![t] = v]],
                          {<<"histories", t>>}, {}))
  <2> DEFINE c == [histories EXCEPT ![t] = v]
  <2>1. c \in Keyed(Tags, HistoryOf)
    BY <1>1, <1>5, KeyedEdit
  <2>2. Told(histories, c, {t}, {})
    BY <1>1, <1>5, ToldOne
  <2>3. tool \in Lossy \/ (Retains(histories, c) /\ RetainsDays(histories, c))
    BY <1>1, <1>5, RetainsOne
  <2> HIDE DEF c
  <2>4. Keeps(Result(tool, [world EXCEPT !.histories = c],
                     Named("histories", {t}), Named("histories", {})))
    BY <1>3, <2>1, <2>2, <2>3
  <2> QED BY <2>4, NamedOne DEF c
<1>6. ASSUME tool \in Lossy
      PROVE  Keeps(Result(tool, [world EXCEPT !.histories = Del(histories, t)],
                          {}, {<<"histories", t>>}))
  <2> DEFINE c == Del(histories, t)
  <2>1. c \in Keyed(Tags, HistoryOf)
    <3>1. DOMAIN histories \ {t} \in SUBSET DOMAIN histories
      OBVIOUS
    <3> QED BY <1>1, <3>1, KeyedRestrict DEF Del
  <2>2. Told(histories, c, {}, {t})
    BY <1>1, ToldOne
  <2> HIDE DEF c
  <2>4. Keeps(Result(tool, [world EXCEPT !.histories = c],
                     Named("histories", {}), Named("histories", {t})))
    BY <1>3, <1>6, <2>1, <2>2
  <2> QED BY <2>4, NamedOne DEF c
<1> QED BY <1>2, <1>4, <1>5, <1>6

LEMMA ScriptWrites ==
  ASSUME world \in GoodWorld, NEW s \in ScriptIds, NEW tool
  PROVE  /\ s \in DOMAIN scripts => scripts[s] \in Script /\ scripts[s].id = s
         /\ \A v \in ScriptOf[s] :
              /\ tool \in Lossy \/ s \notin DOMAIN scripts =>
                   Keeps(Result(tool, [world EXCEPT !.scripts = Put(scripts, s, v)],
                                {<<"scripts", s>>}, {}))
              /\ /\ s \in DOMAIN scripts
                 /\ tool \in Lossy \/ (scripts[s].enabled => v.enabled)
                 => Keeps(Result(tool, [world EXCEPT !.scripts = [scripts EXCEPT ![s] = v]],
                                 {<<"scripts", s>>}, {}))
         /\ tool \in Lossy =>
              Keeps(Result(tool, [world EXCEPT !.scripts = Del(scripts, s)],
                           {}, {<<"scripts", s>>}))
<1>1. scripts \in Keyed(ScriptIds, ScriptOf)
  BY Collections
<1>2. s \in DOMAIN scripts => scripts[s] \in Script /\ scripts[s].id = s
  BY <1>1, KeyedFacts DEF ScriptOf
<1>3. ASSUME NEW c \in Keyed(ScriptIds, ScriptOf), NEW P, NEW G, Told(scripts, c, P, G),
             tool \in Lossy \/ (Retains(scripts, c))
      PROVE  Keeps(Result(tool, [world EXCEPT !.scripts = c],
                          Named("scripts", P), Named("scripts", G)))
  BY <1>3, KeepsScripts
<1>4. ASSUME NEW v \in ScriptOf[s], tool \in Lossy \/ s \notin DOMAIN scripts
      PROVE  Keeps(Result(tool, [world EXCEPT !.scripts = Put(scripts, s, v)],
                          {<<"scripts", s>>}, {}))
  <2> DEFINE c == Put(scripts, s, v)
  <2>1. c \in Keyed(ScriptIds, ScriptOf)
    BY <1>1, KeyedPut DEF Put
  <2>2. Told(scripts, c, {s}, {})
    BY <1>1, ToldOne
  <2>3. tool \in Lossy \/ (Retains(scripts, c))
    BY <1>1, <1>4, RetainsOne
  <2> HIDE DEF c
  <2>4. Keeps(Result(tool, [world EXCEPT !.scripts = c],
                     Named("scripts", {s}), Named("scripts", {})))
    BY <1>3, <2>1, <2>2, <2>3
  <2> QED BY <2>4, NamedOne DEF c
<1>5. ASSUME NEW v \in ScriptOf[s], s \in DOMAIN scripts,
             tool \in Lossy \/ (scripts[s].enabled => v.enabled)
      PROVE  Keeps(Result(tool, [world EXCEPT !.scripts = [scripts EXCEPT ![s] = v]],
                          {<<"scripts", s>>}, {}))
  <2> DEFINE c == [scripts EXCEPT ![s] = v]
  <2>1. c \in Keyed(ScriptIds, ScriptOf)
    BY <1>1, <1>5, KeyedEdit
  <2>2. Told(scripts, c, {s}, {})
    BY <1>1, <1>5, ToldOne
  <2>3. tool \in Lossy \/ (Retains(scripts, c))
    BY <1>1, <1>5, RetainsOne
  <2> HIDE DEF c
  <2>4. Keeps(Result(tool, [world EXCEPT !.scripts = c],
                     Named("scripts", {s}), Named("scripts", {})))
    BY <1>3, <2>1, <2>2, <2>3
  <2> QED BY <2>4, NamedOne DEF c
<1>6. ASSUME tool \in Lossy
      PROVE  Keeps(Result(tool, [world EXCEPT !.scripts = Del(scripts, s)],
                          {}, {<<"scripts", s>>}))
  <2> DEFINE c == Del(scripts, s)
  <2>1. c \in Keyed(ScriptIds, ScriptOf)
    <3>1. DOMAIN scripts \ {s} \in SUBSET DOMAIN scripts
      OBVIOUS
    <3> QED BY <1>1, <3>1, KeyedRestrict DEF Del
  <2>2. Told(scripts, c, {}, {s})
    BY <1>1, ToldOne
  <2> HIDE DEF c
  <2>4. Keeps(Result(tool, [world EXCEPT !.scripts = c],
                     Named("scripts", {}), Named("scripts", {s})))
    BY <1>3, <1>6, <2>1, <2>2
  <2> QED BY <2>4, NamedOne DEF c
<1> QED BY <1>2, <1>4, <1>5, <1>6

LEMMA DeviceWrites ==
  ASSUME world \in GoodWorld, NEW d \in DeviceIds, NEW tool
  PROVE  /\ d \in DOMAIN devices => devices[d] \in Device /\ devices[d].id = d
         /\ \A v \in DeviceOf[d] :
              /\ tool \in Lossy \/ d \notin DOMAIN devices =>
                   Keeps(Result(tool, [world EXCEPT !.devices = Put(devices, d, v)],
                                {<<"devices", d>>}, {}))
              /\ /\ d \in DOMAIN devices
                 /\ tool \in Lossy \/ (devices[d].enabled => v.enabled)
                 => Keeps(Result(tool, [world EXCEPT !.devices = [devices EXCEPT ![d] = v]],
                                 {<<"devices", d>>}, {}))
         /\ tool \in Lossy =>
              Keeps(Result(tool, [world EXCEPT !.devices = Del(devices, d)],
                           {}, {<<"devices", d>>}))
<1>1. devices \in Keyed(DeviceIds, DeviceOf)
  BY Collections
<1>2. d \in DOMAIN devices => devices[d] \in Device /\ devices[d].id = d
  BY <1>1, KeyedFacts DEF DeviceOf
<1>3. ASSUME NEW c \in Keyed(DeviceIds, DeviceOf), NEW P, NEW G, Told(devices, c, P, G),
             tool \in Lossy \/ (Retains(devices, c))
      PROVE  Keeps(Result(tool, [world EXCEPT !.devices = c],
                          Named("devices", P), Named("devices", G)))
  BY <1>3, KeepsDevices
<1>4. ASSUME NEW v \in DeviceOf[d], tool \in Lossy \/ d \notin DOMAIN devices
      PROVE  Keeps(Result(tool, [world EXCEPT !.devices = Put(devices, d, v)],
                          {<<"devices", d>>}, {}))
  <2> DEFINE c == Put(devices, d, v)
  <2>1. c \in Keyed(DeviceIds, DeviceOf)
    BY <1>1, KeyedPut DEF Put
  <2>2. Told(devices, c, {d}, {})
    BY <1>1, ToldOne
  <2>3. tool \in Lossy \/ (Retains(devices, c))
    BY <1>1, <1>4, RetainsOne
  <2> HIDE DEF c
  <2>4. Keeps(Result(tool, [world EXCEPT !.devices = c],
                     Named("devices", {d}), Named("devices", {})))
    BY <1>3, <2>1, <2>2, <2>3
  <2> QED BY <2>4, NamedOne DEF c
<1>5. ASSUME NEW v \in DeviceOf[d], d \in DOMAIN devices,
             tool \in Lossy \/ (devices[d].enabled => v.enabled)
      PROVE  Keeps(Result(tool, [world EXCEPT !.devices = [devices EXCEPT ![d] = v]],
                          {<<"devices", d>>}, {}))
  <2> DEFINE c == [devices EXCEPT ![d] = v]
  <2>1. c \in Keyed(DeviceIds, DeviceOf)
    BY <1>1, <1>5, KeyedEdit
  <2>2. Told(devices, c, {d}, {})
    BY <1>1, <1>5, ToldOne
  <2>3. tool \in Lossy \/ (Retains(devices, c))
    BY <1>1, <1>5, RetainsOne
  <2> HIDE DEF c
  <2>4. Keeps(Result(tool, [world EXCEPT !.devices = c],
                     Named("devices", {d}), Named("devices", {})))
    BY <1>3, <2>1, <2>2, <2>3
  <2> QED BY <2>4, NamedOne DEF c
<1>6. ASSUME tool \in Lossy
      PROVE  Keeps(Result(tool, [world EXCEPT !.devices = Del(devices, d)],
                          {}, {<<"devices", d>>}))
  <2> DEFINE c == Del(devices, d)
  <2>1. c \in Keyed(DeviceIds, DeviceOf)
    <3>1. DOMAIN devices \ {d} \in SUBSET DOMAIN devices
      OBVIOUS
    <3> QED BY <1>1, <3>1, KeyedRestrict DEF Del
  <2>2. Told(devices, c, {}, {d})
    BY <1>1, ToldOne
  <2> HIDE DEF c
  <2>4. Keeps(Result(tool, [world EXCEPT !.devices = c],
                     Named("devices", {}), Named("devices", {d})))
    BY <1>3, <1>6, <2>1, <2>2
  <2> QED BY <2>4, NamedOne DEF c
<1> QED BY <1>2, <1>4, <1>5, <1>6

(* manage_history *)
LEMMA HistoryCallsKeep ==
  ASSUME world \in GoodWorld
  PROVE  \A r \in HistoryCalls : Keeps(r)
<1>1. \A tool : Keeps(Said(tool)) /\ Keeps(Fail(tool))
  BY KeepsAnswer
<1>2. ASSUME NEW t \in Tags, NEW n \in Notes PROVE Keeps(EnableHistory(t, n))
  <2> DEFINE v == [tag |-> t, enabled |-> TRUE, stored |-> 0, note |-> n]
  <2>1. v \in HistoryOf[t]
    BY StoredAssumption DEF History, HistoryOf
  <2> HIDE DEF v
  <2>3. "enable_history" \in Lossy
    BY DEF Lossy, Uncaged
  <2>2. Keeps(Result("enable_history", [world EXCEPT !.histories = Put(histories, t, v)],
                     {<<"histories", t>>}, {}))
    BY <2>1, <2>3, HistoryWrites
  <2> QED BY <1>1, <2>2 DEF EnableHistory, v
<1>3. ASSUME NEW t \in Tags, t \in DOMAIN histories, NEW tool
      PROVE  /\ tool \in Lossy =>
                  Keeps(Result(tool, [world EXCEPT !.histories[t].enabled = FALSE],
                               {<<"histories", t>>}, {}))
             /\ \A n \in Notes :
                  Keeps(Result(tool, [world EXCEPT !.histories[t].note = n],
                               {<<"histories", t>>}, {}))
             /\ tool \in Lossy => \A days \in 0..MaxStored :
                  Keeps(Result(tool, [world EXCEPT !.histories[t].stored = days],
                               {<<"histories", t>>}, {}))
  <2>1. histories[t] \in History /\ histories[t].tag = t
    BY <1>3, HistoryWrites
  <2>2. ASSUME NEW v \in HistoryOf[t],
               \/ tool \in Lossy
               \/ /\ histories[t].enabled => v.enabled
                  /\ v.stored = histories[t].stored
        PROVE  Keeps(Result(tool, [world EXCEPT !.histories = [histories EXCEPT ![t] = v]],
                            {<<"histories", t>>}, {}))
    BY <1>3, <2>2, HistoryWrites
  <2>3. [histories[t] EXCEPT !.enabled = FALSE] \in HistoryOf[t]
    BY <2>1 DEF History, HistoryOf
  <2>4. ASSUME NEW n \in Notes
        PROVE  LET v == [histories[t] EXCEPT !.note = n]
               IN  /\ v \in HistoryOf[t]
                   /\ v.enabled = histories[t].enabled /\ v.stored = histories[t].stored
    BY <2>1 DEF History, HistoryOf
  <2>5. \A days \in 0..MaxStored : [histories[t] EXCEPT !.stored = days] \in HistoryOf[t]
    BY <2>1 DEF History, HistoryOf
  <2>6. /\ [world EXCEPT !.histories[t].enabled = FALSE]
             = [world EXCEPT !.histories =
                  [histories EXCEPT ![t] = [histories[t] EXCEPT !.enabled = FALSE]]]
        /\ \A n : [world EXCEPT !.histories[t].note = n]
             = [world EXCEPT !.histories =
                  [histories EXCEPT ![t] = [histories[t] EXCEPT !.note = n]]]
        /\ \A days : [world EXCEPT !.histories[t].stored = days]
             = [world EXCEPT !.histories =
                  [histories EXCEPT ![t] = [histories[t] EXCEPT !.stored = days]]]
    BY DEF histories
  <2>7. tool \in Lossy =>
          Keeps(Result(tool, [world EXCEPT !.histories[t].enabled = FALSE],
                       {<<"histories", t>>}, {}))
    BY <2>2, <2>3, <2>6
  <2>8. ASSUME NEW n \in Notes
        PROVE  Keeps(Result(tool, [world EXCEPT !.histories[t].note = n],
                            {<<"histories", t>>}, {}))
    <3> DEFINE v == [histories[t] EXCEPT !.note = n]
    <3>1. /\ v \in HistoryOf[t]
          /\ v.enabled = histories[t].enabled /\ v.stored = histories[t].stored
      BY <2>4
    <3> HIDE DEF v
    <3>2. Keeps(Result(tool, [world EXCEPT !.histories = [histories EXCEPT ![t] = v]],
                       {<<"histories", t>>}, {}))
      BY <2>2, <3>1
    <3> QED BY <2>6, <3>2 DEF v
  <2>9. ASSUME tool \in Lossy, NEW days \in 0..MaxStored
        PROVE  Keeps(Result(tool, [world EXCEPT !.histories[t].stored = days],
                            {<<"histories", t>>}, {}))
    BY <2>2, <2>5, <2>6, <2>9
  <2> QED BY <2>7, <2>8, <2>9
<1>8. "disable_history" \in Lossy /\ "delete_history" \in Lossy /\ "purge_history" \in Lossy
  BY DEF Lossy, EnumeratedDestructive, PrefixDestructive
<1>4. \A t \in Tags : Keeps(DisableHistory(t))
  BY <1>1, <1>3, <1>8 DEF DisableHistory
<1>5. \A tool, t, n : t \in Tags /\ n \in Notes =>
        /\ Keeps(SetHistory(tool, t, n)) /\ Keeps(SetRetention(t, n))
        /\ Keeps(SetStoragePolicy(t, n))
  BY <1>1, <1>3 DEF SetHistory, SetRetention, SetStoragePolicy
<1>6. \A t \in Tags : Keeps(DeleteHistory(t))
  BY <1>1, <1>8, HistoryWrites DEF DeleteHistory
<1>7. \A t \in Tags, days \in 0..MaxStored : Keeps(PurgeHistory(t, days))
  BY <1>1, <1>3, <1>8 DEF PurgeHistory
<1> QED BY <1>1, <1>2, <1>4, <1>5, <1>6, <1>7 DEF HistoryCalls

(* manage_scripts *)
LEMMA ScriptCallsKeep ==
  ASSUME world \in GoodWorld
  PROVE  \A r \in ScriptCalls : Keeps(r)
<1>1. \A tool : Keeps(Said(tool)) /\ Keeps(Fail(tool))
  BY KeepsAnswer
<1>2. ASSUME NEW s \in ScriptIds, NEW trigger \in ScriptTriggers, NEW t \in Tags \cup {None},
             NEW on \in BOOLEAN, NEW n \in Notes
      PROVE  Keeps(CreateScript(s, trigger, t, on, n))
  <2> DEFINE v == [id |-> s, trigger |-> trigger, tag |-> t, enabled |-> on, note |-> n]
  <2>1. v \in ScriptOf[s]
    BY DEF Script, ScriptOf
  <2> HIDE DEF v
  <2>2. s \notin DOMAIN scripts =>
          Keeps(Result("create_script", [world EXCEPT !.scripts = Put(scripts, s, v)],
                       {<<"scripts", s>>}, {}))
    BY <2>1, ScriptWrites
  <2> QED BY <1>1, <2>2 DEF CreateScript, v
<1>3. ASSUME NEW tool, NEW s \in ScriptIds, NEW v, s \in DOMAIN scripts => v \in ScriptOf[s],
             s \in DOMAIN scripts => tool \in Lossy \/ (scripts[s].enabled => v.enabled)
      PROVE  Keeps(EditScript(tool, s, v))
  <2>1. CASE s \notin DOMAIN scripts
    BY <1>1, <2>1 DEF EditScript
  <2>2. CASE s \in DOMAIN scripts
    <3>1. [world EXCEPT !.scripts[s] = v] = [world EXCEPT !.scripts = [scripts EXCEPT ![s] = v]]
      BY DEF scripts
    <3>2. Keeps(Result(tool, [world EXCEPT !.scripts = [scripts EXCEPT ![s] = v]],
                       {<<"scripts", s>>}, {}))
      BY <1>3, <2>2, ScriptWrites
    <3> QED BY <2>2, <3>1, <3>2 DEF EditScript
  <2> QED BY <2>1, <2>2
<1>4. ASSUME NEW s \in ScriptIds, s \in DOMAIN scripts
      PROVE  /\ \A n \in Notes : LET v == [scripts[s] EXCEPT !.note = n]
                                 IN  v \in ScriptOf[s] /\ v.enabled = scripts[s].enabled
             /\ \A on \in BOOLEAN : LET v == [scripts[s] EXCEPT !.enabled = on]
                                    IN  v \in ScriptOf[s] /\ v.enabled = on
             /\ \A tr \in ScriptTriggers : LET v == [scripts[s] EXCEPT !.trigger = tr]
                                           IN  v \in ScriptOf[s] /\ v.enabled = scripts[s].enabled
             /\ \A t \in Tags : LET v == [scripts[s] EXCEPT !.tag = t]
                                IN  v \in ScriptOf[s] /\ v.enabled = scripts[s].enabled
  <2>1. scripts[s] \in Script /\ scripts[s].id = s
    BY <1>4, ScriptWrites
  <2> QED BY <2>1 DEF Script, ScriptOf
<1>13. "disable_script" \in Lossy /\ "delete_script" \in Lossy
  BY DEF Lossy, EnumeratedDestructive
<1>5. ASSUME NEW s \in ScriptIds, NEW n \in Notes
      PROVE  /\ Keeps(UpdateScriptBody(s, n)) /\ Keeps(RenameScript(s, n))
             /\ Keeps(SetScriptPeriod(s, n))
  BY <1>3, <1>4 DEF UpdateScriptBody, RenameScript, SetScriptPeriod
<1>6. ASSUME NEW s \in ScriptIds
      PROVE  /\ Keeps(EnableScript(s)) /\ Keeps(DisableScript(s))
             /\ \A tr \in ScriptTriggers : Keeps(SetScriptTrigger(s, tr))
             /\ \A t \in Tags : Keeps(BindScriptToTag(s, t))
  BY <1>1, <1>3, <1>4, <1>13
     DEF EnableScript, DisableScript, SetScriptTrigger, BindScriptToTag
<1>7. ASSUME NEW s \in ScriptIds PROVE Keeps(DeleteScript(s))
  BY <1>1, <1>13, ScriptWrites DEF DeleteScript
<1>8. ASSUME NEW s \in ScriptIds, NEW u \in ScriptIds PROVE Keeps(CloneScript(s, u))
  <2>1. CASE s \notin DOMAIN scripts \/ u \in DOMAIN scripts
    BY <1>1, <2>1 DEF CloneScript
  <2>2. CASE s \in DOMAIN scripts /\ u \notin DOMAIN scripts
    <3> DEFINE v == [scripts[s] EXCEPT !.id = u]
    <3>1. v \in ScriptOf[u]
      <4>1. scripts[s] \in Script
        BY <2>2, ScriptWrites
      <4> QED BY <4>1 DEF Script, ScriptOf
    <3> HIDE DEF v
    <3>2. Keeps(Result("clone_script", [world EXCEPT !.scripts = Put(scripts, u, v)],
                       {<<"scripts", u>>}, {}))
      BY <2>2, <3>1, ScriptWrites
    <3> QED BY <2>2, <3>2 DEF CloneScript, v
  <2> QED BY <2>1, <2>2
<1> DEFINE Answers == {Said(tool) : tool \in ScriptAnswers}
           Creations == {CreateScript(s, trigger, t, on, n) :
             s \in ScriptIds, trigger \in ScriptTriggers, t \in Tags \cup {None},
             on \in BOOLEAN, n \in Notes}
           Edits == UNION {{UpdateScriptBody(s, n), RenameScript(s, n),
                            SetScriptPeriod(s, n)} : s \in ScriptIds, n \in Notes}
           Switches == UNION {{EnableScript(s), DisableScript(s), DeleteScript(s)} :
                                s \in ScriptIds}
           Triggers == {SetScriptTrigger(s, trigger) :
                          s \in ScriptIds, trigger \in ScriptTriggers}
           Links == {BindScriptToTag(s, t) : s \in ScriptIds, t \in Tags}
           Clones == {CloneScript(s, u) : s, u \in ScriptIds}
<1>9. ScriptCalls = Answers \cup Creations \cup Edits \cup Switches \cup Triggers
                    \cup Links \cup Clones
  BY DEF ScriptCalls
<1>10. (\A r \in Answers : Keeps(r)) /\ (\A r \in Creations : Keeps(r))
  <2>1. ASSUME NEW r \in Creations PROVE Keeps(r)
    <3>1. PICK s \in ScriptIds, trigger \in ScriptTriggers, t \in Tags \cup {None},
               on \in BOOLEAN, n \in Notes : r = CreateScript(s, trigger, t, on, n)
      OBVIOUS
    <3> QED BY <1>2, <3>1
  <2> QED BY <1>1, <2>1
<1>11. (\A r \in Edits : Keeps(r)) /\ (\A r \in Switches : Keeps(r))
  BY <1>5, <1>6, <1>7
<1>12. /\ \A r \in Triggers : Keeps(r)
       /\ \A r \in Links : Keeps(r)
       /\ \A r \in Clones : Keeps(r)
  BY <1>6, <1>8
<1> HIDE DEF Answers, Creations, Edits, Switches, Triggers, Links, Clones
<1> QED BY <1>9, <1>10, <1>11, <1>12

(* manage_devices *)
LEMMA DeviceCallsKeep ==
  ASSUME world \in GoodWorld
  PROVE  \A r \in DeviceCalls : Keeps(r)
<1>1. \A tool : Keeps(Said(tool)) /\ Keeps(Fail(tool))
  BY KeepsAnswer
<1>2. ASSUME NEW d \in DeviceIds, NEW ts \in SUBSET Tags, NEW n \in Notes
      PROVE  Keeps(CreateDevice(d, ts, n))
  <2> DEFINE v == [id |-> d, tags |-> ts, enabled |-> TRUE, note |-> n]
  <2>1. v \in DeviceOf[d]
    BY DEF Device, DeviceOf
  <2> HIDE DEF v
  <2>2. d \notin DOMAIN devices =>
          Keeps(Result("create_device", [world EXCEPT !.devices = Put(devices, d, v)],
                       {<<"devices", d>>}, {}))
    BY <2>1, DeviceWrites
  <2> QED BY <1>1, <2>2 DEF CreateDevice, v
<1>3. ASSUME NEW tool, NEW d \in DeviceIds, NEW v, d \in DOMAIN devices => v \in DeviceOf[d],
             d \in DOMAIN devices => tool \in Lossy \/ (devices[d].enabled => v.enabled)
      PROVE  Keeps(EditDevice(tool, d, v))
  <2>1. CASE d \notin DOMAIN devices
    BY <1>1, <2>1 DEF EditDevice
  <2>2. CASE d \in DOMAIN devices
    <3>1. [world EXCEPT !.devices[d] = v] = [world EXCEPT !.devices = [devices EXCEPT ![d] = v]]
      BY DEF devices
    <3>2. Keeps(Result(tool, [world EXCEPT !.devices = [devices EXCEPT ![d] = v]],
                       {<<"devices", d>>}, {}))
      BY <1>3, <2>2, DeviceWrites
    <3> QED BY <2>2, <3>1, <3>2 DEF EditDevice
  <2> QED BY <2>1, <2>2
<1>4. ASSUME NEW d \in DeviceIds, d \in DOMAIN devices
      PROVE  /\ devices[d] \in Device
             /\ \A n \in Notes : LET v == [devices[d] EXCEPT !.note = n]
                                 IN  v \in DeviceOf[d] /\ v.enabled = devices[d].enabled
             /\ \A on \in BOOLEAN : LET v == [devices[d] EXCEPT !.enabled = on]
                                    IN  v \in DeviceOf[d] /\ v.enabled = on
             /\ \A ts \in SUBSET Tags :
                  LET v == [devices[d] EXCEPT !.tags = devices[d].tags \cup ts]
                  IN  v \in DeviceOf[d] /\ v.enabled = devices[d].enabled
             /\ \A ts \in SUBSET Tags, n \in Notes :
                  LET v == [devices[d] EXCEPT !.tags = ts, !.note = n]
                  IN  v \in DeviceOf[d] /\ v.enabled = devices[d].enabled
  <2>1. devices[d] \in Device /\ devices[d].id = d
    BY <1>4, DeviceWrites
  <2>2. ASSUME NEW n \in Notes
        PROVE  LET v == [devices[d] EXCEPT !.note = n]
               IN  v \in DeviceOf[d] /\ v.enabled = devices[d].enabled
    BY <2>1 DEF Device, DeviceOf
  <2>3. ASSUME NEW on \in BOOLEAN
        PROVE  LET v == [devices[d] EXCEPT !.enabled = on]
               IN  v \in DeviceOf[d] /\ v.enabled = on
    BY <2>1 DEF Device, DeviceOf
  <2>4. ASSUME NEW ts \in SUBSET Tags
        PROVE  LET v == [devices[d] EXCEPT !.tags = devices[d].tags \cup ts]
               IN  v \in DeviceOf[d] /\ v.enabled = devices[d].enabled
    BY <2>1 DEF Device, DeviceOf
  <2>5. ASSUME NEW ts \in SUBSET Tags, NEW n \in Notes
        PROVE  LET v == [devices[d] EXCEPT !.tags = ts, !.note = n]
               IN  v \in DeviceOf[d] /\ v.enabled = devices[d].enabled
    BY <2>1 DEF Device, DeviceOf
  <2> QED BY <2>1, <2>2, <2>3, <2>4, <2>5
<1>16. "disable_device" \in Lossy /\ "delete_device" \in Lossy
  BY DEF Lossy, EnumeratedDestructive, PrefixDestructive
<1>5. ASSUME NEW tool, NEW d \in DeviceIds, NEW n \in Notes PROVE Keeps(SetDevice(tool, d, n))
  BY <1>3, <1>4 DEF SetDevice
<1>6. ASSUME NEW d \in DeviceIds, NEW n \in Notes
      PROVE  /\ Keeps(ConfigureDeviceParams(d, n)) /\ Keeps(CalibrateDevice(d, n))
             /\ Keeps(SetDeviceAlarmLimits(d, n))
             /\ \A tool : Keeps(PlaceDevice(tool, d, n)) /\ Keeps(AssignDevice(tool, d, n))
  BY <1>5 DEF ConfigureDeviceParams, CalibrateDevice, SetDeviceAlarmLimits,
              PlaceDevice, AssignDevice
<1>7. ASSUME NEW d \in DeviceIds, NEW ts \in SUBSET Tags
      PROVE  /\ Keeps(LinkDevicePoints(d, ts))
             /\ \A n \in Notes : Keeps(UpdateDevice(d, ts, n))
  BY <1>1, <1>3, <1>4 DEF LinkDevicePoints, UpdateDevice
<1>8. ASSUME NEW d \in DeviceIds PROVE Keeps(EnableDevice(d)) /\ Keeps(DisableDevice(d))
  BY <1>3, <1>4, <1>16 DEF EnableDevice, DisableDevice
<1>9. ASSUME NEW d \in DeviceIds PROVE Keeps(DeleteDevice(d))
  BY <1>1, <1>16, DeviceWrites DEF DeleteDevice
<1>10. ASSUME NEW d \in DeviceIds, NEW e \in DeviceIds PROVE Keeps(CloneDevice(d, e))
  <2>1. CASE d \notin DOMAIN devices \/ e \in DOMAIN devices
    BY <1>1, <2>1 DEF CloneDevice
  <2>2. CASE d \in DOMAIN devices /\ e \notin DOMAIN devices
    <3> DEFINE v == [devices[d] EXCEPT !.id = e]
    <3>1. v \in DeviceOf[e]
      <4> DEFINE old == devices[d]
      <4>1. old \in Device
        BY <1>4, <2>2
      <4> HIDE DEF old
      <4>2. [old EXCEPT !.id = e] \in Device /\ [old EXCEPT !.id = e].id = e
        BY <4>1 DEF Device
      <4>3. \A y \in Device : y.id = e => y \in DeviceOf[e]
        BY DEF DeviceOf
      <4> QED BY <4>2, <4>3 DEF old
    <3> HIDE DEF v
    <3>2. Keeps(Result("clone_device", [world EXCEPT !.devices = Put(devices, e, v)],
                       {<<"devices", e>>}, {}))
      BY <2>2, <3>1, DeviceWrites
    <3> QED BY <2>2, <3>2 DEF CloneDevice, v
  <2> QED BY <2>1, <2>2
<1>11. \A r \in UNION {{CreateDevice(d, ts, n), UpdateDevice(d, ts, n)} :
                        d \in DeviceIds, ts \in SUBSET Tags, n \in Notes} : Keeps(r)
  BY <1>2, <1>7
<1>12. \A r \in UNION {{ConfigureDeviceParams(d, n), CalibrateDevice(d, n),
                         SetDeviceAlarmLimits(d, n)} : d \in DeviceIds, n \in Notes} : Keeps(r)
  BY <1>6
<1>13. /\ \A r \in {PlaceDevice(tool, d, n) :
                      tool \in Placements, d \in DeviceIds, n \in Notes} : Keeps(r)
       /\ \A r \in {AssignDevice(tool, d, n) :
                      tool \in Assignments, d \in DeviceIds, n \in Notes} : Keeps(r)
  BY <1>6
<1>14. \A r \in UNION {{EnableDevice(d), DisableDevice(d), DeleteDevice(d)} :
                        d \in DeviceIds} : Keeps(r)
  BY <1>8, <1>9
<1>15. /\ \A r \in {LinkDevicePoints(d, ts) : d \in DeviceIds, ts \in SUBSET Tags} : Keeps(r)
       /\ \A r \in {CloneDevice(d, e) : d, e \in DeviceIds} : Keeps(r)
  BY <1>7, <1>10
<1> QED BY <1>1, <1>11, <1>12, <1>13, <1>14, <1>15 DEF DeviceCalls

-----------------------------------------------------------------------------
(* manage_pages and manage_graphics: a page is edited through its note, its *)
(* widgets or as a whole.                                                   *)
LEMMA PageWrites ==
  ASSUME world \in GoodWorld, NEW p \in PageIds, NEW tool
  PROVE  /\ p \in DOMAIN pages =>
              /\ pages[p] \in Page /\ pages[p].id = p
              /\ pages[p].widgets \in Keyed(WidgetIds, WidgetOf(p))
         /\ \A v \in PageOf[p] :
              /\ p \notin DOMAIN pages =>
                   Keeps(Result(tool, [world EXCEPT !.pages = Put(pages, p, v)],
                                {<<"pages", p>>}, {}))
              /\ p \in DOMAIN pages /\ v.widgets = pages[p].widgets =>
                   Keeps(Result(tool, [world EXCEPT !.pages = [pages EXCEPT ![p] = v]],
                                {<<"pages", p>>}, {}))
         /\ tool \in Lossy =>
              Keeps(Result(tool, [world EXCEPT !.pages = Del(pages, p)],
                           {}, {<<"pages", p>>}))
<1>1. pages \in Keyed(PageIds, PageOf)
  BY Collections
<1>2. p \in DOMAIN pages =>
        /\ pages[p] \in Page /\ pages[p].id = p
        /\ pages[p].widgets \in Keyed(WidgetIds, WidgetOf(p))
  BY <1>1, KeyedFacts DEF PageOf
<1>3. ASSUME NEW c \in Keyed(PageIds, PageOf), NEW P, NEW G, Told(pages, c, P, G),
             tool \in Lossy \/ RetainsWidgets(pages, c)
      PROVE  Keeps(Result(tool, [world EXCEPT !.pages = c],
                          Named("pages", P), Named("pages", G)))
  <2>1. Tells(PagesFiled(pages) \cup WidgetsFiled(pages), PagesFiled(c) \cup WidgetsFiled(c),
              Named("pages", P), Named("pages", G))
    BY <1>3, ToldPages
  <2>2. \A q \in Named("pages", G) : q[1] \in {"pages", "widgets"}
    BY DEF Named
  <2> QED BY <1>3, <2>1, <2>2, KeepsPages
<1>4. ASSUME NEW v \in PageOf[p], p \notin DOMAIN pages
      PROVE  Keeps(Result(tool, [world EXCEPT !.pages = Put(pages, p, v)],
                          {<<"pages", p>>}, {}))
  <2> DEFINE c == Put(pages, p, v)
  <2>1. c \in Keyed(PageIds, PageOf)
    BY <1>1, KeyedPut DEF Put
  <2>2. Told(pages, c, {p}, {})
    BY <1>1, ToldOne
  <2>3. RetainsWidgets(pages, c)
    BY <1>4 DEF RetainsWidgets, Put
  <2> HIDE DEF c
  <2>4. Keeps(Result(tool, [world EXCEPT !.pages = c],
                     Named("pages", {p}), Named("pages", {})))
    BY <1>3, <2>1, <2>2, <2>3
  <2> QED BY <2>4, NamedOne DEF c
<1>5. ASSUME NEW v \in PageOf[p], p \in DOMAIN pages, v.widgets = pages[p].widgets
      PROVE  Keeps(Result(tool, [world EXCEPT !.pages = [pages EXCEPT ![p] = v]],
                          {<<"pages", p>>}, {}))
  <2> DEFINE c == [pages EXCEPT ![p] = v]
  <2>1. /\ c \in Keyed(PageIds, PageOf) /\ DOMAIN c = DOMAIN pages
        /\ \A q \in DOMAIN pages : c[q] = IF q = p THEN v ELSE pages[q]
    BY <1>1, <1>5, KeyedEdit
  <2>2. Told(pages, c, {p}, {})
    BY <1>1, <1>5, ToldOne
  <2> HIDE DEF c
  <2>3. RetainsWidgets(pages, c)
    BY <1>5, <2>1 DEF RetainsWidgets
  <2>4. Keeps(Result(tool, [world EXCEPT !.pages = c],
                     Named("pages", {p}), Named("pages", {})))
    BY <1>3, <2>1, <2>2, <2>3
  <2> QED BY <2>4, NamedOne DEF c
<1>6. ASSUME tool \in Lossy
      PROVE  Keeps(Result(tool, [world EXCEPT !.pages = Del(pages, p)],
                          {}, {<<"pages", p>>}))
  <2> DEFINE c == Del(pages, p)
  <2>1. c \in Keyed(PageIds, PageOf)
    <3>1. DOMAIN pages \ {p} \in SUBSET DOMAIN pages
      OBVIOUS
    <3> QED BY <1>1, <3>1, KeyedRestrict DEF Del
  <2>2. Told(pages, c, {}, {p})
    BY <1>1, ToldOne
  <2> HIDE DEF c
  <2>4. Keeps(Result(tool, [world EXCEPT !.pages = c],
                     Named("pages", {}), Named("pages", {p})))
    BY <1>3, <1>6, <2>1, <2>2
  <2> QED BY <2>4, NamedOne DEF c
<1> QED BY <1>2, <1>4, <1>5, <1>6

LEMMA KeyedTyped ==
  ASSUME NEW S, NEW F, NEW T, NEW c \in Keyed(S, F), \A k \in S : F[k] \subseteq T
  PROVE  c \in PartialFcn(S, T)
<1>1. /\ DOMAIN c \in SUBSET S /\ c = [k \in DOMAIN c |-> c[k]]
      /\ \A k \in DOMAIN c : c[k] \in T
  BY KeyedFacts
<1>2. c \in [DOMAIN c -> T]
  BY <1>1
<1> QED BY <1>1, <1>2 DEF PartialFcn

(* A page with other widgets that name it.                                 *)
LEMMA PageWith ==
  ASSUME NEW p \in PageIds, NEW q \in PageIds, NEW page \in Page,
         NEW ws \in Keyed(WidgetIds, WidgetOf(q))
  PROVE  /\ [page EXCEPT !.id = q, !.widgets = ws] \in PageOf[q]
         /\ page.id = q => [page EXCEPT !.widgets = ws] \in PageOf[q]
<1>1. ws \in PartialFcn(WidgetIds, Widget)
  <2>1. \A x \in WidgetIds : WidgetOf(q)[x] \subseteq Widget
    BY DEF WidgetOf
  <2> QED BY <2>1, KeyedTyped
<1>2. [page EXCEPT !.id = q, !.widgets = ws] \in PageOf[q]
  BY <1>1 DEF Page, PageOf
<1>3. page.id = q => [page EXCEPT !.widgets = ws] \in PageOf[q]
  BY <1>1 DEF Page, PageOf
<1> QED BY <1>2, <1>3

(* The widgets of a page keep what they are bound to.                      *)
RetainsBindings(c, d) ==
  /\ DOMAIN c \subseteq DOMAIN d
  /\ \A x \in DOMAIN c : DOMAIN c[x].bindings \subseteq DOMAIN d[x].bindings
OnPage(p, xs) == {<<"widgets", p, x>> : x \in xs}

LEMMA OnPageOne == \A p, x : OnPage(p, {x}) = {<<"widgets", p, x>>} /\ OnPage(p, {}) = {}
BY DEF OnPage

LEMMA WidgetsWrite ==
  ASSUME world \in GoodWorld, NEW p \in DOMAIN pages,
         NEW ws \in Keyed(WidgetIds, WidgetOf(p)), NEW tool, NEW P, NEW G,
         Told(pages[p].widgets, ws, P, G),
         tool \in Lossy \/ RetainsBindings(pages[p].widgets, ws)
  PROVE  Keeps(Result(tool, [world EXCEPT !.pages[p].widgets = ws],
                      OnPage(p, P), OnPage(p, G)))
<1>1. p \in PageIds /\ pages \in Keyed(PageIds, PageOf)
  BY Collections, KeyedFacts
<1>2. pages[p] \in Page /\ pages[p].id = p
  BY <1>1, PageWrites
<1> DEFINE v == [pages[p] EXCEPT !.widgets = ws]
<1>3. v \in PageOf[p]
  BY <1>1, <1>2, PageWith
<1>4. v.note = pages[p].note /\ v.widgets = ws
  BY <1>2 DEF Page
<1>5. [world EXCEPT !.pages[p].widgets = ws] = [world EXCEPT !.pages = [pages EXCEPT ![p] = v]]
  BY DEF pages
<1> HIDE DEF v
<1> DEFINE c == [pages EXCEPT ![p] = v]
<1>6. /\ c \in Keyed(PageIds, PageOf) /\ DOMAIN c = DOMAIN pages
      /\ \A q \in DOMAIN pages : c[q] = IF q = p THEN v ELSE pages[q]
  BY <1>1, <1>3, KeyedEdit
<1> HIDE DEF c
<1>7. Tells(PagesFiled(pages) \cup WidgetsFiled(pages), PagesFiled(c) \cup WidgetsFiled(c),
            OnPage(p, P), OnPage(p, G))
  <2> DEFINE old == pages
  <2>1. /\ p \in DOMAIN old /\ DOMAIN c = DOMAIN old
        /\ \A q \in DOMAIN old : q # p => c[q] = old[q]
        /\ c[p].note = old[p].note /\ Told(old[p].widgets, c[p].widgets, P, G)
    BY <1>4, <1>6
  <2> HIDE DEF old
  <2>2. Tells(PagesFiled(old) \cup WidgetsFiled(old), PagesFiled(c) \cup WidgetsFiled(c),
              {<<"widgets", p, x>> : x \in P}, {<<"widgets", p, x>> : x \in G})
    BY ONLY <2>1, ToldWidgets
  <2> QED BY <2>2 DEF old, OnPage
<1>8. \A q \in OnPage(p, G) : q[1] \in {"pages", "widgets"}
  BY DEF OnPage
<1>9. tool \in Lossy \/ RetainsWidgets(pages, c)
  BY <1>4, <1>6 DEF RetainsWidgets, RetainsBindings
<1>10. Keeps(Result(tool, [world EXCEPT !.pages = c], OnPage(p, P), OnPage(p, G)))
  BY <1>6, <1>7, <1>8, <1>9, KeepsPages
<1> QED BY <1>5, <1>10 DEF c

LEMMA AWidget ==
  ASSUME world \in GoodWorld, NEW p, NEW x, HasWidget(p, x)
  PROVE  /\ p \in DOMAIN pages /\ p \in PageIds /\ x \in WidgetIds
         /\ x \in DOMAIN pages[p].widgets
         /\ pages[p].widgets[x] \in Widget
         /\ pages[p].widgets[x].id = x /\ pages[p].widgets[x].page = p
<1>1. p \in DOMAIN pages /\ x \in DOMAIN pages[p].widgets
  BY DEF HasWidget
<1>2. p \in PageIds
  BY <1>1, Collections, KeyedFacts
<1>3. pages[p].widgets \in Keyed(WidgetIds, WidgetOf(p))
  BY <1>1, <1>2, PageWrites
<1> QED BY <1>1, <1>2, <1>3, KeyedFacts DEF WidgetOf

LEMMA WidgetEdits ==
  ASSUME world \in GoodWorld, NEW p, NEW x, NEW v,
         HasWidget(p, x) => v \in WidgetOf(p)[x], NEW tool,
         \/ tool \in Lossy
         \/ HasWidget(p, x) => DOMAIN pages[p].widgets[x].bindings \subseteq DOMAIN v.bindings
  PROVE  Keeps(EditWidget(tool, p, x, v))
<1>1. CASE ~HasWidget(p, x)
  BY <1>1, KeepsAnswer DEF EditWidget
<1>2. CASE HasWidget(p, x)
  <2>1. /\ p \in DOMAIN pages /\ p \in PageIds /\ x \in WidgetIds
        /\ x \in DOMAIN pages[p].widgets
    BY <1>2, AWidget
  <2> DEFINE old == pages[p].widgets
             ws == [old EXCEPT ![x] = v]
  <2>2. old \in Keyed(WidgetIds, WidgetOf(p))
    BY <2>1, PageWrites
  <2>3. [world EXCEPT !.pages[p].widgets[x] = v] = [world EXCEPT !.pages[p].widgets = ws]
    BY DEF pages
  <2>4. /\ x \in WidgetIds /\ x \in DOMAIN old /\ v \in WidgetOf(p)[x]
        /\ tool \in Lossy \/ DOMAIN old[x].bindings \subseteq DOMAIN v.bindings
    BY <1>2, <2>1
  <2> HIDE DEF old
  <2>5. /\ ws \in Keyed(WidgetIds, WidgetOf(p)) /\ DOMAIN ws = DOMAIN old
        /\ \A y \in DOMAIN old : ws[y] = IF y = x THEN v ELSE old[y]
    BY <2>2, <2>4, KeyedEdit
  <2>6. Told(old, ws, {x}, {})
    BY <2>2, <2>4, ToldOne
  <2> HIDE DEF ws
  <2>7. tool \in Lossy \/ RetainsBindings(old, ws)
    BY <2>4, <2>5 DEF RetainsBindings
  <2>8. Keeps(Result(tool, [world EXCEPT !.pages[p].widgets = ws],
                     OnPage(p, {x}), OnPage(p, {})))
    BY <2>1, <2>5, <2>6, <2>7, WidgetsWrite DEF old
  <2> QED BY <1>2, <2>3, <2>8, OnPageOne DEF EditWidget, ws, old
<1> QED BY <1>1, <1>2

LEMMA WidgetPlacement ==
  ASSUME world \in GoodWorld, NEW tool, NEW p \in PageIds, NEW x \in WidgetIds,
         NEW expects \in SUBSET PointTypes, NEW n \in Notes
  PROVE  Keeps(PlaceWidget(tool, p, x, expects, n))
<1>1. CASE p \notin DOMAIN pages \/ HasWidget(p, x)
  BY <1>1, KeepsAnswer DEF PlaceWidget
<1>2. CASE p \in DOMAIN pages /\ ~HasWidget(p, x)
  <2> DEFINE v == [id |-> x, page |-> p, note |-> n, expects |-> expects,
                   bindings |-> <<>>]
             old == pages[p].widgets
             ws == Put(old, x, v)
  <2>1. v \in WidgetOf(p)[x]
    <3>1. <<>> \in PartialFcn(Properties, Tags)
      <4>1. <<>> \in [{} -> Tags]
        OBVIOUS
      <4> QED BY <4>1 DEF PartialFcn
    <3> QED BY <3>1 DEF Widget, WidgetOf
  <2> HIDE DEF v
  <2>2. old \in Keyed(WidgetIds, WidgetOf(p))
    BY <1>2, PageWrites
  <2> HIDE DEF old
  <2>3. ws \in Keyed(WidgetIds, WidgetOf(p))
    BY <2>1, <2>2, KeyedPut
  <2>5. Told(old, ws, {x}, {})
    BY <2>2, ToldOne
  <2>6. RetainsBindings(old, ws)
    <3>1. x \notin DOMAIN old
      BY <1>2 DEF HasWidget, old
    <3> QED BY <3>1 DEF RetainsBindings, Put
  <2> HIDE DEF ws
  <2>4. Keeps(Result(tool, [world EXCEPT !.pages[p].widgets = ws],
                     OnPage(p, {x}), OnPage(p, {})))
    BY <1>2, <2>3, <2>5, <2>6, WidgetsWrite DEF old
  <2> QED BY <1>2, <2>4, OnPageOne DEF PlaceWidget, ws, old, v
<1> QED BY <1>1, <1>2

LEMMA BindingEdits ==
  ASSUME NEW b \in PartialFcn(Properties, Tags), NEW prop \in Properties
  PROVE  /\ \A t \in Tags : Put(b, prop, t) \in PartialFcn(Properties, Tags)
         /\ \A t \in Tags : DOMAIN b \subseteq DOMAIN Put(b, prop, t)
         /\ Del(b, prop) \in PartialFcn(Properties, Tags)
<1>1. DOMAIN b \subseteq Properties /\ \A k \in DOMAIN b : b[k] \in Tags
  BY DEF PartialFcn
<1>2. \A t \in Tags : Put(b, prop, t) \in [DOMAIN b \cup {prop} -> Tags]
  BY <1>1 DEF Put
<1>3. Del(b, prop) \in [DOMAIN b \ {prop} -> Tags]
  BY <1>1 DEF Del, Restrict
<1>4. \A t \in Tags : DOMAIN b \subseteq DOMAIN Put(b, prop, t)
  BY DEF Put
<1>5. \A t \in Tags : Put(b, prop, t) \in PartialFcn(Properties, Tags)
  BY <1>1, <1>2 DEF PartialFcn
<1>6. Del(b, prop) \in PartialFcn(Properties, Tags)
  BY <1>1, <1>3 DEF PartialFcn
<1> QED BY <1>4, <1>5, <1>6

LEMMA BoundWidget ==
  ASSUME world \in GoodWorld, NEW p, NEW x, HasWidget(p, x), NEW prop \in Properties
  PROVE  /\ \A t \in Tags :
              /\ Bound(p, x, prop, t) \in WidgetOf(p)[x]
              /\ DOMAIN pages[p].widgets[x].bindings
                   \subseteq DOMAIN Bound(p, x, prop, t).bindings
         /\ [pages[p].widgets[x] EXCEPT
               !.bindings = Del(pages[p].widgets[x].bindings, prop)] \in WidgetOf(p)[x]
<1> DEFINE w == pages[p].widgets[x]
<1>1. w \in Widget /\ w.id = x /\ w.page = p /\ x \in WidgetIds
  BY AWidget
<1> HIDE DEF w
<1> DEFINE b == w.bindings
<1>2. b \in PartialFcn(Properties, Tags)
  BY <1>1 DEF Widget
<1> HIDE DEF b
<1>3. /\ \A t \in Tags : /\ Put(b, prop, t) \in PartialFcn(Properties, Tags)
                          /\ DOMAIN b \subseteq DOMAIN Put(b, prop, t)
      /\ Del(b, prop) \in PartialFcn(Properties, Tags)
  BY <1>2, BindingEdits
<1>4. ASSUME NEW c \in PartialFcn(Properties, Tags)
      PROVE  /\ [w EXCEPT !.bindings = c] \in WidgetOf(p)[x]
             /\ [w EXCEPT !.bindings = c].bindings = c
  BY <1>1 DEF Widget, WidgetOf
<1>5. /\ \A t \in Tags : /\ [w EXCEPT !.bindings = Put(b, prop, t)] \in WidgetOf(p)[x]
                          /\ DOMAIN b \subseteq
                               DOMAIN [w EXCEPT !.bindings = Put(b, prop, t)].bindings
      /\ [w EXCEPT !.bindings = Del(b, prop)] \in WidgetOf(p)[x]
  BY <1>3, <1>4
<1> QED BY <1>5 DEF Bound, b, w

LEMMA BindingKeeps ==
  ASSUME world \in GoodWorld, NEW p, NEW x, NEW prop \in Properties, NEW t \in Tags
  PROVE  Keeps(BindPoint(p, x, prop, t)) /\ Keeps(UpdateWidgetBinding(p, x, prop, t))
<1>1. \A tool : Keeps(EditWidget(tool, p, x, Bound(p, x, prop, t)))
  BY BoundWidget, WidgetEdits
<1> QED BY <1>1, KeepsAnswer DEF BindPoint, UpdateWidgetBinding

LEMMA UnbindingKeeps ==
  ASSUME world \in GoodWorld, NEW p, NEW x, NEW prop \in Properties
  PROVE  Keeps(UnbindWidgetPoint(p, x, prop))
<1>1. "unbind_widget_point" \in Lossy
  BY DEF Lossy, PrefixDestructive
<1> QED BY <1>1, BoundWidget, WidgetEdits DEF UnbindWidgetPoint

LEMMA WidgetNotes ==
  ASSUME world \in GoodWorld, NEW tool, NEW p, NEW x, NEW n \in Notes
  PROVE  Keeps(SetWidget(tool, p, x, n))
<1>1. HasWidget(p, x) =>
        /\ [pages[p].widgets[x] EXCEPT !.note = n] \in WidgetOf(p)[x]
        /\ [pages[p].widgets[x] EXCEPT !.note = n].bindings = pages[p].widgets[x].bindings
  BY AWidget DEF Widget, WidgetOf
<1> QED BY <1>1, WidgetEdits DEF SetWidget

LEMMA PageHandlersKeep ==
  ASSUME world \in GoodWorld, NEW p \in PageIds
  PROVE  /\ \A n \in Notes :
              /\ Keeps(CreatePage(p, n)) /\ Keeps(RenamePage(p, n))
              /\ Keeps(SetPageResolution(p, n)) /\ Keeps(SetPageBackground(p, n))
         /\ Keeps(DeletePage(p))
         /\ \A q \in PageIds : Keeps(ClonePage(p, q))
<1>1. \A tool : Keeps(Fail(tool))
  BY KeepsAnswer
<1>2. ASSUME NEW n \in Notes PROVE Keeps(CreatePage(p, n))
  <2> DEFINE v == [id |-> p, note |-> n, widgets |-> <<>>]
  <2>1. v \in PageOf[p]
    <3>1. <<>> \in Keyed(WidgetIds, WidgetOf(p)) /\ <<>> \in PartialFcn(WidgetIds, Widget)
      <4>1. <<>> \in [{} -> Widget]
        OBVIOUS
      <4> QED BY <4>1, KeyedEmpty DEF PartialFcn
    <3> QED BY <3>1 DEF Page, PageOf
  <2> HIDE DEF v
  <2>2. p \notin DOMAIN pages =>
          Keeps(Result("create_page", [world EXCEPT !.pages = Put(pages, p, v)],
                       {<<"pages", p>>}, {}))
    BY <2>1, PageWrites
  <2> QED BY <1>1, <2>2 DEF CreatePage, v
<1>3. ASSUME NEW tool, NEW n \in Notes PROVE Keeps(SetPage(tool, p, n))
  <2>1. CASE p \notin DOMAIN pages
    BY <1>1, <2>1 DEF SetPage
  <2>2. CASE p \in DOMAIN pages
    <3> DEFINE v == [pages[p] EXCEPT !.note = n]
    <3>1. v \in PageOf[p] /\ v.widgets = pages[p].widgets
      <4>1. /\ pages[p] \in Page /\ pages[p].id = p
            /\ pages[p].widgets \in Keyed(WidgetIds, WidgetOf(p))
        BY <2>2, PageWrites
      <4> QED BY <4>1 DEF Page, PageOf
    <3>2. [world EXCEPT !.pages[p].note = n] = [world EXCEPT !.pages = [pages EXCEPT ![p] = v]]
      BY DEF pages
    <3> HIDE DEF v
    <3>3. Keeps(Result(tool, [world EXCEPT !.pages = [pages EXCEPT ![p] = v]],
                       {<<"pages", p>>}, {}))
      BY <2>2, <3>1, PageWrites
    <3> QED BY <2>2, <3>2, <3>3 DEF SetPage
  <2> QED BY <2>1, <2>2
<1>4. Keeps(DeletePage(p))
  <2>1. "delete_page" \in Lossy
    BY DEF Lossy, EnumeratedDestructive
  <2> QED BY <1>1, <2>1, PageWrites DEF DeletePage
<1>5. ASSUME NEW q \in PageIds PROVE Keeps(ClonePage(p, q))
  <2>1. CASE p \notin DOMAIN pages \/ q \in DOMAIN pages
    BY <1>1, <2>1 DEF ClonePage
  <2>2. CASE p \in DOMAIN pages /\ q \notin DOMAIN pages
    <3> DEFINE page == pages[p]
               own == [x \in DOMAIN page.widgets |-> [page.widgets[x] EXCEPT !.page = q]]
               v == [page EXCEPT !.id = q, !.widgets = own]
    <3>1. page \in Page /\ page.widgets \in Keyed(WidgetIds, WidgetOf(p))
      BY <2>2, PageWrites
    <3> HIDE DEF page
    <3>2. \A x \in DOMAIN page.widgets :
            x \in WidgetIds /\ page.widgets[x] \in WidgetOf(p)[x]
      BY <3>1, KeyedFacts
    <3>3. /\ own = [x \in DOMAIN own |-> own[x]] /\ DOMAIN own \subseteq WidgetIds
          /\ \A x \in DOMAIN own : own[x] \in WidgetOf(q)[x]
      <4>1. \A x \in DOMAIN page.widgets :
              [page.widgets[x] EXCEPT !.page = q] \in WidgetOf(q)[x]
        <5>1. \A y \in Widget : /\ [y EXCEPT !.page = q] \in Widget
                                /\ [y EXCEPT !.page = q].id = y.id
                                /\ [y EXCEPT !.page = q].page = q
          BY DEF Widget
        <5>2. \A x \in DOMAIN page.widgets :
                page.widgets[x] \in Widget /\ page.widgets[x].id = x
          BY <3>2 DEF WidgetOf
        <5>3. \A x \in WidgetIds, y \in Widget :
                y.id = x /\ y.page = q => y \in WidgetOf(q)[x]
          BY DEF WidgetOf
        <5> QED BY <3>2, <5>1, <5>2, <5>3
      <4> QED BY <3>2, <4>1
    <3> HIDE DEF own
    <3>4. own \in Keyed(WidgetIds, WidgetOf(q))
      BY <3>3, KeyedFunction
    <3>5. v \in PageOf[q]
      BY <3>1, <3>4, PageWith
    <3> HIDE DEF v
    <3>6. Keeps(Result("clone_page", [world EXCEPT !.pages = Put(pages, q, v)],
                       {<<"pages", q>>}, {}))
      BY <2>2, <3>5, PageWrites
    <3> QED BY <2>2, <3>6 DEF ClonePage, v, own, page
  <2> QED BY <2>1, <2>2
<1> QED BY <1>2, <1>3, <1>4, <1>5 DEF RenamePage, SetPageResolution, SetPageBackground

LEMMA PageCallsKeep ==
  ASSUME world \in GoodWorld
  PROVE  \A r \in PageCalls : Keeps(r)
<1> DEFINE Answers == {Said(tool) : tool \in PageAnswers}
           OnPages == UNION {{CreatePage(p, n), RenamePage(p, n), SetPageResolution(p, n),
                              SetPageBackground(p, n)} : p \in PageIds, n \in Notes}
           Deletions == {DeletePage(p) : p \in PageIds}
           Clones == {ClonePage(p, q) : p, q \in PageIds}
           Creations == {CreateWidget(p, x, expects, n) :
             p \in PageIds, x \in WidgetIds, expects \in SUBSET PointTypes, n \in Notes}
           Moves == UNION {{MoveWidget(p, x, n), ResizeWidget(p, x, n)} :
                             p \in PageIds, x \in WidgetIds, n \in Notes}
           Bindings == UNION {{BindPoint(p, x, prop, t), UpdateWidgetBinding(p, x, prop, t)} :
             p \in PageIds, x \in WidgetIds, prop \in Properties, t \in Tags}
           Unbindings == {UnbindWidgetPoint(p, x, prop) :
             p \in PageIds, x \in WidgetIds, prop \in Properties}
<1>1. PageCalls = Answers \cup OnPages \cup Deletions \cup Clones \cup Creations
                  \cup Moves \cup Bindings \cup Unbindings
  BY DEF PageCalls
<1>2. (\A r \in Answers : Keeps(r)) /\ (\A r \in OnPages : Keeps(r))
  BY KeepsAnswer, PageHandlersKeep
<1>3. (\A r \in Deletions : Keeps(r)) /\ (\A r \in Clones : Keeps(r))
  BY PageHandlersKeep
<1>4. ASSUME NEW r \in Creations PROVE Keeps(r)
  <2>1. PICK p \in PageIds, x \in WidgetIds, expects \in SUBSET PointTypes, n \in Notes :
          r = CreateWidget(p, x, expects, n)
    OBVIOUS
  <2> QED BY <2>1, WidgetPlacement DEF CreateWidget
<1>5. \A r \in Moves : Keeps(r)
  BY WidgetNotes DEF MoveWidget, ResizeWidget
<1>6. ASSUME NEW r \in Bindings PROVE Keeps(r)
  <2>1. PICK p \in PageIds, x \in WidgetIds, prop \in Properties, t \in Tags :
          r = BindPoint(p, x, prop, t) \/ r = UpdateWidgetBinding(p, x, prop, t)
    OBVIOUS
  <2>2. Keeps(BindPoint(p, x, prop, t)) /\ Keeps(UpdateWidgetBinding(p, x, prop, t))
    BY BindingKeeps
  <2> QED BY <2>1, <2>2
<1>7. ASSUME NEW r \in Unbindings PROVE Keeps(r)
  <2>1. PICK p \in PageIds, x \in WidgetIds, prop \in Properties :
          r = UnbindWidgetPoint(p, x, prop)
    OBVIOUS
  <2> QED BY <2>1, UnbindingKeeps
<1> HIDE DEF Answers, OnPages, Deletions, Clones, Creations, Moves, Bindings, Unbindings
<1> QED BY <1>1, <1>2, <1>3, <1>4, <1>5, <1>6, <1>7

LEMMA LayoutKeeps ==
  ASSUME world \in GoodWorld, NEW p \in PageIds, NEW xs \in SUBSET WidgetIds, NEW n \in Notes
  PROVE  Keeps(ApplyFlowLayout(p, xs, n))
<1>1. CASE ~AllOnPage(p, xs)
  BY <1>1, KeepsAnswer DEF ApplyFlowLayout
<1>2. CASE AllOnPage(p, xs)
  <2>1. p \in DOMAIN pages
    BY <1>2 DEF AllOnPage
  <2> DEFINE old == pages[p].widgets
             ws == [x \in DOMAIN old |->
                      IF x \in xs THEN [old[x] EXCEPT !.note = n] ELSE old[x]]
  <2>2. old \in Keyed(WidgetIds, WidgetOf(p))
    BY <2>1, PageWrites
  <2> HIDE DEF old
  <2>3. \A x \in DOMAIN old : x \in WidgetIds /\ old[x] \in WidgetOf(p)[x]
    BY <2>2, KeyedFacts
  <2>7. xs \subseteq DOMAIN old
    BY <1>2 DEF AllOnPage, old
  <2>4. /\ ws = [x \in DOMAIN ws |-> ws[x]] /\ DOMAIN ws \subseteq WidgetIds
        /\ \A x \in DOMAIN ws : ws[x] \in WidgetOf(p)[x]
        /\ Told(old, ws, xs, {}) /\ RetainsBindings(old, ws)
    <3>1. \A x \in DOMAIN old : /\ [old[x] EXCEPT !.note = n] \in WidgetOf(p)[x]
                                /\ [old[x] EXCEPT !.note = n].bindings = old[x].bindings
      BY <2>3 DEF Widget, WidgetOf
    <3>2. /\ ws = [x \in DOMAIN ws |-> ws[x]] /\ DOMAIN ws = DOMAIN old
          /\ \A x \in DOMAIN old :
               ws[x] = IF x \in xs THEN [old[x] EXCEPT !.note = n] ELSE old[x]
      OBVIOUS
    <3> HIDE DEF ws
    <3> QED BY <2>3, <2>7, <3>1, <3>2 DEF Told, RetainsBindings
  <2> HIDE DEF ws
  <2>5. ws \in Keyed(WidgetIds, WidgetOf(p))
    BY <2>4, KeyedFunction
  <2>6. Keeps(Result("apply_flow_layout", [world EXCEPT !.pages[p].widgets = ws],
                     OnPage(p, xs), OnPage(p, {})))
    BY <2>1, <2>4, <2>5, WidgetsWrite DEF old
  <2> QED BY <1>2, <2>6, OnPageOne DEF ApplyFlowLayout, OnPage, ws, old
<1> QED BY <1>1, <1>2

LEMMA WidgetDeletion ==
  ASSUME world \in GoodWorld, NEW p \in PageIds, NEW x \in WidgetIds
  PROVE  Keeps(DeleteWidget(p, x))
<1>1. CASE ~HasWidget(p, x)
  BY <1>1, KeepsAnswer DEF DeleteWidget
<1>2. CASE HasWidget(p, x)
  <2>1. p \in DOMAIN pages
    BY <1>2 DEF HasWidget
  <2> DEFINE old == pages[p].widgets
             ws == Del(old, x)
  <2>2. old \in Keyed(WidgetIds, WidgetOf(p))
    BY <2>1, PageWrites
  <2> HIDE DEF old
  <2>3. ws \in Keyed(WidgetIds, WidgetOf(p))
    BY <2>2, KeyedDel
  <2>5. Told(old, ws, {}, {x})
    BY <2>2, ToldOne
  <2>6. "delete_widget" \in Lossy
    BY DEF Lossy, EnumeratedDestructive
  <2> HIDE DEF ws
  <2>4. Keeps(Result("delete_widget", [world EXCEPT !.pages[p].widgets = ws],
                     OnPage(p, {}), OnPage(p, {x})))
    BY <2>1, <2>3, <2>5, <2>6, WidgetsWrite DEF old
  <2> QED BY <1>2, <2>4, OnPageOne DEF DeleteWidget, ws, old
<1> QED BY <1>1, <1>2

LEMMA GroupsKeep ==
  ASSUME world \in GoodWorld, NEW p \in PageIds, NEW g \in GroupIds
  PROVE  /\ \A xs \in SUBSET WidgetIds : Keeps(GroupWidgets(p, g, xs))
         /\ Keeps(UngroupWidgets(p, g))
<1> DEFINE S == PageIds \X GroupIds
           old == groups
           k == <<p, g>>
<1>1. old \in Keyed(S, GroupOf) /\ k \in S /\ \A xs \in SUBSET WidgetIds : xs \in GroupOf[k]
  BY Collections DEF GroupOf
<1>2. ASSUME NEW c \in Keyed(S, GroupOf), NEW tool, NEW P \in SUBSET S, NEW G \in SUBSET S,
             Told(old, c, P, G), tool \in Lossy \/ DOMAIN old \subseteq DOMAIN c
      PROVE  Keeps(Result(tool, [world EXCEPT !.groups = c],
                          {<<"groups", e[1], e[2]>> : e \in P},
                          {<<"groups", e[1], e[2]>> : e \in G}))
  BY <1>2, KeepsGroups
<1>3. {<<"groups", e[1], e[2]>> : e \in {k}} = {<<"groups", p, g>>}
  OBVIOUS
<1>4. {<<"groups", e[1], e[2]>> : e \in {}} = {}
  OBVIOUS
<1> HIDE DEF S, old, k
<1>5. ASSUME NEW xs \in SUBSET WidgetIds PROVE Keeps(GroupWidgets(p, g, xs))
  <2> DEFINE c == Put(old, k, xs)
  <2>1. c \in Keyed(S, GroupOf)
    BY <1>1, KeyedPut
  <2>6. Told(old, c, {k}, {})
    BY <1>1, ToldOne
  <2>7. DOMAIN old \subseteq DOMAIN c
    BY DEF Put
  <2>2. Told(old, c, {k}, {}) /\ DOMAIN old \subseteq DOMAIN c
    BY <2>6, <2>7
  <2>3. {k} \in SUBSET S /\ {} \in SUBSET S
    BY <1>1
  <2> HIDE DEF c
  <2>4. Keeps(Result("group_widgets", [world EXCEPT !.groups = c],
                     {<<"groups", e[1], e[2]>> : e \in {k}},
                     {<<"groups", e[1], e[2]>> : e \in {}}))
    BY <1>2, <2>1, <2>2, <2>3
  <2>5. Keeps(Result("group_widgets", [world EXCEPT !.groups = c], {<<"groups", p, g>>}, {}))
    BY <1>3, <1>4, <2>4
  <2> QED BY <2>5, KeepsAnswer DEF GroupWidgets, c, old, k
<1>6. Keeps(UngroupWidgets(p, g))
  <2> DEFINE c == Del(old, k)
  <2>1. c \in Keyed(S, GroupOf)
    BY <1>1, KeyedDel
  <2>2. Told(old, c, {}, {k})
    BY <1>1, ToldOne
  <2>3. {k} \in SUBSET S /\ {} \in SUBSET S /\ "ungroup_widgets" \in Lossy
    BY <1>1 DEF Lossy, Uncaged
  <2> HIDE DEF c
  <2>4. Keeps(Result("ungroup_widgets", [world EXCEPT !.groups = c],
                     {<<"groups", e[1], e[2]>> : e \in {}},
                     {<<"groups", e[1], e[2]>> : e \in {k}}))
    BY <1>2, <2>1, <2>2, <2>3
  <2>5. Keeps(Result("ungroup_widgets", [world EXCEPT !.groups = c], {}, {<<"groups", p, g>>}))
    BY <1>3, <1>4, <2>4
  <2> QED BY <2>5, KeepsAnswer DEF UngroupWidgets, c, old, k
<1> QED BY <1>5, <1>6

LEMMA GraphicsCallsKeep ==
  ASSUME world \in GoodWorld
  PROVE  \A r \in GraphicsCalls : Keeps(r)
<1> DEFINE Answers == {Said(tool) : tool \in GraphicsAnswers}
           Drawn == {CreateShape(tool, p, x, n) :
             tool \in Shapes, p \in PageIds, x \in WidgetIds, n \in Notes}
           Placed == {CreateSymbol(tool, p, x, n) :
             tool \in Symbols, p \in PageIds, x \in WidgetIds, n \in Notes}
           Layouts == {ApplyFlowLayout(p, xs, n) :
             p \in PageIds, xs \in SUBSET WidgetIds, n \in Notes}
           Groupings == {GroupWidgets(p, g, xs) :
             p \in PageIds, g \in GroupIds, xs \in SUBSET WidgetIds}
           Ungroupings == {UngroupWidgets(p, g) : p \in PageIds, g \in GroupIds}
           Styles == UNION {{SetWidgetStyle(p, x, n), RotateWidget(p, x, n)} :
                              p \in PageIds, x \in WidgetIds, n \in Notes}
           Deletions == {DeleteWidget(p, x) : p \in PageIds, x \in WidgetIds}
<1>1. GraphicsCalls = Answers \cup Drawn \cup Placed \cup Layouts \cup Groupings
                      \cup Ungroupings \cup Styles \cup Deletions
  BY DEF GraphicsCalls
<1>2. ASSUME NEW tool, NEW p \in PageIds, NEW x \in WidgetIds, NEW n \in Notes
      PROVE  Keeps(CreateShape(tool, p, x, n)) /\ Keeps(CreateSymbol(tool, p, x, n))
  <2>1. {} \in SUBSET PointTypes
    OBVIOUS
  <2>2. Keeps(PlaceWidget(tool, p, x, {}, n))
    BY <2>1, WidgetPlacement
  <2> QED BY <2>2 DEF CreateShape, CreateSymbol
<1>3. ASSUME NEW r \in Drawn PROVE Keeps(r)
  <2>1. PICK tool \in Shapes, p \in PageIds, x \in WidgetIds, n \in Notes :
          r = CreateShape(tool, p, x, n)
    OBVIOUS
  <2> QED BY <1>2, <2>1
<1>4. ASSUME NEW r \in Placed PROVE Keeps(r)
  <2>1. PICK tool \in Symbols, p \in PageIds, x \in WidgetIds, n \in Notes :
          r = CreateSymbol(tool, p, x, n)
    OBVIOUS
  <2> QED BY <1>2, <2>1
<1>5. (\A r \in Answers : Keeps(r)) /\ (\A r \in Layouts : Keeps(r))
  BY KeepsAnswer, LayoutKeeps
<1>6. (\A r \in Groupings : Keeps(r)) /\ (\A r \in Ungroupings : Keeps(r))
  BY GroupsKeep
<1>7. \A r \in Styles : Keeps(r)
  BY WidgetNotes DEF SetWidgetStyle, RotateWidget
<1>8. \A r \in Deletions : Keeps(r)
  BY WidgetDeletion
<1> HIDE DEF Answers, Drawn, Placed, Layouts, Groupings, Ungroupings, Styles, Deletions
<1> QED BY <1>1, <1>3, <1>4, <1>5, <1>6, <1>7, <1>8

-----------------------------------------------------------------------------
(* Whatever domain is called, the outcome keeps the project.               *)
LEMMA StepKeeps ==
  ASSUME world \in GoodWorld, [Next]_vars
  PROVE  /\ world' \in GoodWorld /\ offered' = offered
         /\ AlarmsHavePoints => AlarmsHavePoints'
<1>1. ASSUME NEW r, Keeps(r), world' = r.world
      PROVE  world' \in GoodWorld /\ (AlarmsHavePoints => AlarmsHavePoints')
  BY <1>1 DEF Keeps, AlarmsHavePoints, AlarmsHavePointsIn
<1>2. CASE UNCHANGED vars
  BY <1>2 DEF vars, AlarmsHavePoints, AlarmsHavePointsIn
<1>3. ASSUME NEW d \in AnswerDomains, NEW r \in CallsOf(d) PROVE Keeps(r)
  <2>1. r \in {Said(tool) : tool \in AnswersOf(d)}
    BY <1>3 DEF CallsOf, AnswerDomains
  <2> QED BY <2>1, KeepsAnswer
<1>4. offered' = offered
  BY DEF Next, vars
<1>5. CASE Next
  <2>1. CASE ManagePoints
    <3>1. PICK r \in PointCalls : world' = r.world
      BY <2>1 DEF ManagePoints, Do
    <3>2. Keeps(r)
      BY PointCallsKeep
    <3> QED BY <1>1, <1>4, <3>1, <3>2
  <2>2. CASE ManageAlarms
    <3>1. PICK r \in AlarmCalls : world' = r.world
      BY <2>2 DEF ManageAlarms, Do
    <3>2. Keeps(r)
      BY AlarmCallsKeep
    <3> QED BY <1>1, <1>4, <3>1, <3>2
  <2>3. CASE ManageHistory
    <3>1. PICK r \in HistoryCalls : world' = r.world
      BY <2>3 DEF ManageHistory, Do
    <3>2. Keeps(r)
      BY HistoryCallsKeep
    <3> QED BY <1>1, <1>4, <3>1, <3>2
  <2>4. CASE ManageScripts
    <3>1. PICK r \in ScriptCalls : world' = r.world
      BY <2>4 DEF ManageScripts, Do
    <3>2. Keeps(r)
      BY ScriptCallsKeep
    <3> QED BY <1>1, <1>4, <3>1, <3>2
  <2>5. CASE ManageDevices
    <3>1. PICK r \in DeviceCalls : world' = r.world
      BY <2>5 DEF ManageDevices, Do
    <3>2. Keeps(r)
      BY DeviceCallsKeep
    <3> QED BY <1>1, <1>4, <3>1, <3>2
  <2>6. CASE ManagePages
    <3>1. PICK r \in PageCalls : world' = r.world
      BY <2>6 DEF ManagePages, Do
    <3>2. Keeps(r)
      BY PageCallsKeep
    <3> QED BY <1>1, <1>4, <3>1, <3>2
  <2>7. CASE ManageGraphics
    <3>1. PICK r \in GraphicsCalls : world' = r.world
      BY <2>7 DEF ManageGraphics, Do
    <3>2. Keeps(r)
      BY GraphicsCallsKeep
    <3> QED BY <1>1, <1>4, <3>1, <3>2
  <2>8. CASE AnswerOnly
    <3>1. PICK d \in offered \cap AnswerDomains : \E r \in CallsOf(d) : Do(r)
      BY <2>8 DEF AnswerOnly
    <3>2. PICK r \in CallsOf(d) : world' = r.world
      BY <3>1 DEF Do
    <3>3. Keeps(r)
      BY <1>3
    <3> QED BY <1>1, <1>4, <3>2, <3>3
  <2> QED BY <1>5, <2>1, <2>2, <2>3, <2>4, <2>5, <2>6, <2>7, <2>8 DEF Next
<1> QED BY <1>2, <1>4, <1>5

(* No handler makes the project untyped: what create, copy, clone, rename  *)
(* and batch build are records the pydantic models accept.                 *)
THEOREM WorldTypeCorrect == Spec => []WorldTypeOK
<1> DEFINE Inv == world \in GoodWorld /\ offered \in Surfaces
<1>1. Init => Inv
  BY SeedsAssumption, GoodWorldIff DEF Init
<1>2. Inv /\ [Next]_vars => Inv'
  BY StepKeeps
<1>3. Inv => WorldTypeOK
  BY GoodWorldIff DEF WorldTypeOK
<1> QED BY <1>1, <1>2, <1>3, PTL DEF Spec

(* Every record keeps the key it is stored under, and every widget the     *)
(* page it sits on, whatever is created, renamed, copied or cloned.        *)
THEOREM KeysAgreeHold == Spec => []KeysAgree
<1> DEFINE Inv == world \in GoodWorld
<1>1. Init => Inv
  BY SeedsAssumption, GoodWorldIff DEF Init
<1>2. Inv /\ [Next]_vars => Inv'
  BY StepKeeps
<1>3. Inv => KeysAgree
  BY GoodWorldIff DEF KeysAgree
<1> QED BY <1>1, <1>2, <1>3, PTL DEF Spec

(* No sequence of calls deletes, renames or batch-deletes the point an     *)
(* alarm watches, or creates an alarm on a tag that does not exist.        *)
THEOREM AlarmsHavePointsHold ==
  ASSUME SeedsHavePoints
  PROVE  Spec => []AlarmsHavePoints
<1> DEFINE Inv == world \in GoodWorld /\ AlarmsHavePoints
<1>1. Init => Inv
  BY SeedsAssumption, GoodWorldIff DEF Init, SeedsHavePoints, AlarmsHavePoints
<1>2. Inv /\ [Next]_vars => Inv'
  BY StepKeeps
<1> QED BY <1>1, <1>2, PTL DEF Spec

LEMMA CallsOfEach ==
  /\ CallsOf("points") = PointCalls /\ CallsOf("alarms") = AlarmCalls
  /\ CallsOf("history") = HistoryCalls /\ CallsOf("scripts") = ScriptCalls
  /\ CallsOf("devices") = DeviceCalls /\ CallsOf("pages") = PageCalls
  /\ CallsOf("graphics") = GraphicsCalls
<1>1. {"points", "alarms", "history", "scripts", "devices", "pages", "graphics"}
        \cap AnswerDomains = {}
  BY DEF AnswerDomains
<1>2. CallsOf("points") = PointCalls /\ CallsOf("alarms") = AlarmCalls
  BY <1>1 DEF CallsOf
<1>3. CallsOf("history") = HistoryCalls /\ CallsOf("scripts") = ScriptCalls
  BY <1>1 DEF CallsOf
<1>4. CallsOf("devices") = DeviceCalls /\ CallsOf("pages") = PageCalls
  BY <1>1 DEF CallsOf
<1>5. CallsOf("graphics") = GraphicsCalls
  BY <1>1 DEF CallsOf
<1> QED BY <1>2, <1>3, <1>4, <1>5

(* Every result a session may see is a handler's of an offered domain.     *)
LEMMA ResultsKeep ==
  ASSUME world \in GoodWorld, offered \in Surfaces
  PROVE  \A r \in Results : Keeps(r)
<1>1. ASSUME NEW d \in offered, NEW r \in CallsOf(d) PROVE Keeps(r)
  <2>1. d \in Domains
    BY SurfacesAssumption
  <2>2. CASE d \in AnswerDomains
    <3>1. r \in {Said(tool) : tool \in AnswersOf(d)}
      BY <1>1, <2>2 DEF CallsOf, AnswerDomains
    <3> QED BY <3>1, KeepsAnswer
  <2>3. CASE d = "points"
    BY <1>1, <2>3, CallsOfEach, PointCallsKeep
  <2>4. CASE d = "alarms"
    BY <1>1, <2>4, CallsOfEach, AlarmCallsKeep
  <2>5. CASE d = "history"
    BY <1>1, <2>5, CallsOfEach, HistoryCallsKeep
  <2>6. CASE d = "scripts"
    BY <1>1, <2>6, CallsOfEach, ScriptCallsKeep
  <2>7. CASE d = "devices"
    BY <1>1, <2>7, CallsOfEach, DeviceCallsKeep
  <2>8. CASE d = "pages"
    BY <1>1, <2>8, CallsOfEach, PageCallsKeep
  <2>9. CASE d = "graphics"
    BY <1>1, <2>9, CallsOfEach, GraphicsCallsKeep
  <2> QED BY <2>1, <2>2, <2>3, <2>4, <2>5, <2>6, <2>7, <2>8, <2>9 DEF Domains
<1> QED BY <1>1 DEF Results

(* No write is silent: in whatever project calls have left, a handler's    *)
(* world_diff names everything it changed, what it names as written exists *)
(* and what it names as removed is gone.                                   *)
THEOREM DiffTells == Spec => []DiffTellsTheChange
<1> DEFINE Inv == world \in GoodWorld /\ offered \in Surfaces
<1>1. Init => Inv
  BY SeedsAssumption, GoodWorldIff DEF Init
<1>2. Inv /\ [Next]_vars => Inv'
  BY StepKeeps
<1>3. Inv => DiffTellsTheChange
  BY ResultsKeep DEF DiffTellsTheChange, Keeps, Tells
<1> QED BY <1>1, <1>2, <1>3, PTL DEF Spec

(* The cage's verb lists miss no loss but the three known ones: a handler  *)
(* by any other name leaves every entity, binding, enabled flag and day of *)
(* an archive in place, whatever project it is called on.                  *)
THEOREM LossesCaged == Spec => []LossesAreCaged
<1> DEFINE Inv == world \in GoodWorld /\ offered \in Surfaces
<1>1. Init => Inv
  BY SeedsAssumption, GoodWorldIff DEF Init
<1>2. Inv /\ [Next]_vars => Inv'
  BY StepKeeps
<1>3. ASSUME Inv PROVE LossesAreCaged
  <2>1. ASSUME NEW r \in Losers PROVE r.tool \in Lossy
    <3>1. r \in Results /\ ~(Holdings(world) \subseteq Holdings(r.world))
      BY <2>1 DEF Losers
    <3>2. ~RetainsAll(world, r.world)
      BY <3>1, HoldingsRetained
    <3>3. Keeps(r)
      BY <1>3, <3>1, ResultsKeep
    <3> QED BY <3>2, <3>3 DEF Keeps
  <2> QED BY <2>1 DEF LossesAreCaged, Lossy
<1> QED BY <1>1, <1>2, <1>3, PTL DEF Spec
=============================================================================
