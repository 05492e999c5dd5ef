------------------------- MODULE MprisClientProofs -------------------------
(***************************************************************************)
(* Which player MprisClient follows: lemmas about the four passes of       *)
(* reevaluateActive and about the handlers that end in it.                 *)
(***************************************************************************)
EXTENDS MprisClient, WellFoundedInduction, TLAPS

-----------------------------------------------------------------------------
(* The least number of a set, and the first player of a set.               *)

LEMMA LessIsWellFounded == IsWellFoundedOn({ss \in Nat \X Nat : ss[1] < ss[2]}, Nat)
  BY NatLessThanWellFounded DEF OpToRel

LEMMA LeastExists ==
  ASSUME NEW T \in SUBSET Nat, T # {}
  PROVE  \E m \in T : \A n \in T : m <= n
<1> DEFINE R == {ss \in Nat \X Nat : ss[1] < ss[2]}
<1>1. PICK m \in T : \A y \in T : ~(<<y, m>> \in R)
  BY LessIsWellFounded, WFMin, Zenon
<1>2. ASSUME NEW n \in T PROVE m <= n
  <2>1. <<n, m>> \in Nat \X Nat /\ <<n, m>>[1] = n /\ <<n, m>>[2] = m
    BY <1>1
  <2>2. n < m => <<n, m>> \in R
    BY <2>1
  <2>3. ~(n < m) /\ n \in Nat /\ m \in Nat
    BY <1>1, <2>2
  <2> QED BY <2>3
<1> QED BY <1>1, <1>2

LEMMA PriorityIsANumber ==
  ASSUME NEW c \in Client, NEW p \in Candidates(c)
  PROVE  PriorityOf(c, p) \in Nat /\ c.tracked[PriorityOf(c, p)] = p
<1>1. \E i \in DOMAIN c.tracked : c.tracked[i] = p
  BY DEF Candidates
<1>2. PriorityOf(c, p) \in DOMAIN c.tracked /\ c.tracked[PriorityOf(c, p)] = p
  BY <1>1 DEF PriorityOf
<1>3. c.tracked \in Seq(Player)
  BY DEF Client
<1>4. DOMAIN c.tracked = 1 .. Len(c.tracked) /\ Len(c.tracked) \in Nat
  BY <1>3
<1> QED BY <1>2, <1>4

LEMMA FirstIsFirst ==
  ASSUME NEW c \in Client, NEW S \in SUBSET Candidates(c), S # {}
  PROVE  /\ FirstOf(c, S) \in S
         /\ \A q \in S : PriorityOf(c, FirstOf(c, S)) <= PriorityOf(c, q)
<1> DEFINE T == {PriorityOf(c, q) : q \in S}
<1>1. T \in SUBSET Nat /\ T # {}
  BY PriorityIsANumber
<1>2. PICK m \in T : \A n \in T : m <= n
  BY <1>1, LeastExists
<1>3. \E p \in S : \A q \in S : PriorityOf(c, p) <= PriorityOf(c, q)
  BY <1>2
<1> QED BY <1>3 DEF FirstOf

-----------------------------------------------------------------------------
(* The four passes.                                                        *)

Eligible(c) == {p \in Candidates(c) : c.info[p].status \in {"Playing", "Paused"}}
ClassIn(c, p) ==
    (IF p = c.preferred THEN 0 ELSE 2)
    + (IF c.info[p].status = "Playing" THEN 0 ELSE 1)

\* p comes before every other player that plays or is paused.
ComesFirst(c, p) ==
    /\ p \in Eligible(c)
    /\ \A q \in Eligible(c) \ {p} :
          \/ ClassIn(c, p) < ClassIn(c, q)
          \/ ClassIn(c, p) = ClassIn(c, q) /\ PriorityOf(c, p) < PriorityOf(c, q)

\* Two players have two priorities, so that the first of a set of one class
\* comes before the others of it.
LEMMA FirstOfAClass ==
  ASSUME NEW c \in Client, NEW S \in SUBSET Eligible(c), S # {}, NEW k \in Nat,
         \A q \in S : ClassIn(c, q) = k,
         \A q \in Eligible(c) \ S : ClassIn(c, q) > k
  PROVE  ComesFirst(c, FirstOf(c, S))
<1> DEFINE p == FirstOf(c, S)
<1>1. S \in SUBSET Candidates(c)
  BY DEF Eligible
<1>2. p \in S /\ \A q \in S : PriorityOf(c, p) <= PriorityOf(c, q)
  BY <1>1, FirstIsFirst
<1> HIDE DEF p
<1>3. ASSUME NEW q \in S, q # p PROVE PriorityOf(c, p) < PriorityOf(c, q)
  <2>1. /\ PriorityOf(c, p) \in Nat /\ c.tracked[PriorityOf(c, p)] = p
        /\ PriorityOf(c, q) \in Nat /\ c.tracked[PriorityOf(c, q)] = q
    BY <1>1, <1>2, PriorityIsANumber
  <2>2. PriorityOf(c, p) # PriorityOf(c, q)
    BY <2>1, <1>3
  <2> QED BY <1>2, <2>1, <2>2
<1>4. ASSUME NEW q \in Eligible(c) \ {p}
      PROVE  \/ ClassIn(c, p) < ClassIn(c, q)
             \/ ClassIn(c, p) = ClassIn(c, q) /\ PriorityOf(c, p) < PriorityOf(c, q)
  <2>1. CASE q \in S
    BY <2>1, <1>2, <1>3
  <2>2. CASE q \notin S
    BY <2>2, <1>2
  <2> QED BY <2>1, <2>2
<1>5. ComesFirst(c, p)
  BY <1>2, <1>4 DEF ComesFirst
<1> QED BY <1>5 DEF p

LEMMA ChosenComesFirst ==
  ASSUME NEW c \in Client
  PROVE  \/ Eligible(c) = {} /\ Chosen(c) = None
         \/ ComesFirst(c, Chosen(c))
<1> DEFINE all == Candidates(c)
           preferred == {p \in all : p = c.preferred}
           pass == <<In(c, preferred, "Playing"), In(c, preferred, "Paused"),
                     In(c, all, "Playing"), In(c, all, "Paused")>>
           found == {i \in DOMAIN pass : pass[i] # {}}
           n == CHOOSE i \in found : \A j \in found : i <= j
<1>1. /\ pass[1] = In(c, preferred, "Playing") /\ pass[2] = In(c, preferred, "Paused")
      /\ pass[3] = In(c, all, "Playing") /\ pass[4] = In(c, all, "Paused")
      /\ DOMAIN pass = 1 .. 4
  OBVIOUS
<1>2. Chosen(c) = IF found = {} THEN None ELSE FirstOf(c, pass[n])
  BY DEF Chosen
<1> HIDE DEF pass
<1>3. \A i : i \in found <=> i \in 1 .. 4 /\ pass[i] # {}
  BY <1>1
<1> HIDE DEF found
<1>4. \A p : p \in Eligible(c) <=>
              p \in all /\ (c.info[p].status = "Playing" \/ c.info[p].status = "Paused")
  BY DEF Eligible
<1>5. CASE found = {}
  <2>1. pass[3] = {} /\ pass[4] = {}
    BY <1>3, <1>5
  <2>2. Eligible(c) = {}
    BY <2>1, <1>4, <1>1 DEF In
  <2>3. Chosen(c) = None
    BY <1>5, <1>2
  <2> QED BY <2>2, <2>3
<1>6. CASE found # {}
  <2>1. \E i \in found : \A j \in found : i <= j
    <3>1. found \in SUBSET Nat
      BY <1>3
    <3> QED BY <3>1, <1>6, LeastExists
  <2>2. n \in found /\ \A j \in found : n <= j
    BY <2>1
  <2>3. n \in 1 .. 4 /\ pass[n] # {} /\ \A j \in 1 .. 4 : j < n => pass[j] = {}
    BY <1>3, <2>2
  <2>4. Chosen(c) = FirstOf(c, pass[n])
    BY <1>6, <1>2
  <2> HIDE DEF n
  <2>5. pass[n] \in SUBSET Eligible(c)
    <3>1. \A i \in 1 .. 4 : \A q \in pass[i] : q \in Eligible(c)
      BY <1>4, <1>1 DEF In
    <3> QED BY <2>3, <3>1
  <2>6. /\ \A q \in pass[n] : ClassIn(c, q) = n - 1
        /\ \A q \in Eligible(c) \ pass[n] : ClassIn(c, q) > n - 1
    <3>1. CASE n = 1
      BY <3>1, <1>4, <1>1 DEF In, ClassIn
    <3>2. CASE n = 2
      BY <3>2, <2>3, <1>4, <1>1 DEF In, ClassIn
    <3>3. CASE n = 3
      BY <3>3, <2>3, <1>4, <1>1 DEF In, ClassIn
    <3>4. CASE n = 4
      BY <3>4, <2>3, <1>4, <1>1 DEF In, ClassIn
    <3> QED BY <2>3, <3>1, <3>2, <3>3, <3>4
  <2>7. ComesFirst(c, FirstOf(c, pass[n]))
    BY <2>3, <2>5, <2>6, FirstOfAClass
  <2> QED BY <2>4, <2>7
<1> QED BY <1>5, <1>6

-----------------------------------------------------------------------------
(* reevaluateActive, and the handlers that end in it.                      *)

FollowsFirst(c, progress) ==
    /\ c.active = None <=> Eligible(c) = {}
    /\ c.active # None => ComesFirst(c, c.active)
    /\ c.shown = IF c.active = None THEN NoInfo ELSE c.info[c.active]
    /\ c.poll <=> c.active # None /\ progress /\ c.shown.status = "Playing"

\* A client that follows nobody shows and polls nothing.
Idle(c) == c.active = None => c.shown = NoInfo /\ c.poll = FALSE

LEMMA EligiblePlayers ==
  ASSUME NEW c \in Client
  PROVE  Eligible(c) \subseteq Player /\ None \notin Eligible(c)
  BY BusAssumption DEF Eligible, Candidates, Client

\* What the passes look at is not what reevaluateActive changes.
LEMMA SameChoice ==
  ASSUME NEW c \in Client, NEW d \in Client,
         d.known = c.known, d.info = c.info, d.preferred = c.preferred, d.tracked = c.tracked
  PROVE  /\ Eligible(d) = Eligible(c)
         /\ \A p : ComesFirst(d, p) <=> ComesFirst(c, p)
<1>1. Candidates(d) = Candidates(c)
  BY DEF Candidates
<1>2. Eligible(d) = Eligible(c)
  BY <1>1 DEF Eligible
<1>3. \A p : PriorityOf(d, p) = PriorityOf(c, p)
  BY DEF PriorityOf
<1>4. \A p : ClassIn(d, p) = ClassIn(c, p)
  BY DEF ClassIn
<1>5. \A p : ComesFirst(d, p) <=> ComesFirst(c, p)
  BY <1>2, <1>3, <1>4 DEF ComesFirst
<1> QED BY <1>2, <1>5

LEMMA ReevaluateFollowsFirst ==
  ASSUME NEW c \in Client, Idle(c), NEW force \in BOOLEAN, NEW progress \in BOOLEAN
  PROVE  LET new == Reevaluate(c, force, progress).client
         IN  new \in Client /\ FollowsFirst(new, progress) /\ Idle(new)
<1> DEFINE p == Chosen(c)
           new == Reevaluate(c, force, progress).client
<1>1. NoInfo \in Infos /\ NoInfo.status # "Playing"
  BY BusAssumption DEF NoInfo, Infos, Status
<1>2. CASE Eligible(c) = {} /\ p = None /\ c.active # None
  <2>1. new = [c EXCEPT !.active = None, !.shown = NoInfo, !.poll = FALSE]
    BY <1>2, Zenon DEF Reevaluate, LosesPlayer, Done
  <2>2. new \in Client
    BY <2>1, <1>1, Zenon DEF Client
  <2>3. /\ new.known = c.known /\ new.info = c.info /\ new.preferred = c.preferred
        /\ new.tracked = c.tracked /\ new.active = None /\ new.shown = NoInfo /\ new.poll = FALSE
    BY <2>1 DEF Client
  <2>4. Eligible(new) = {}
    BY <1>2, <2>2, <2>3, SameChoice
  <2> QED BY <2>2, <2>3, <2>4 DEF FollowsFirst, Idle
<1>3. CASE Eligible(c) = {} /\ p = None /\ c.active = None
  <2>1. new = c
    BY <1>3, Zenon DEF Reevaluate, Done
  <2> QED BY <2>1, <1>3 DEF FollowsFirst, Idle
<1>4. CASE ComesFirst(c, p)
  <2>1. p \in Player /\ p # None /\ p \in Eligible(c)
    BY <1>4, EligiblePlayers DEF ComesFirst
  <2> DEFINE poll == progress /\ c.info[p].status = "Playing"
  <2>2. new = [c EXCEPT !.active = p, !.shown = c.info[p], !.poll = poll]
    BY <2>1, Zenon DEF Reevaluate, Follows, Done
  <2>3. c.info[p] \in Infos /\ poll \in BOOLEAN
    BY <2>1 DEF Client
  <2> HIDE DEF poll
  <2>4. new \in Client
    BY <2>1, <2>2, <2>3, Zenon DEF Client
  <2>5. /\ new.known = c.known /\ new.info = c.info /\ new.preferred = c.preferred
        /\ new.tracked = c.tracked /\ new.active = p /\ new.shown = c.info[p] /\ new.poll = poll
    BY <2>2 DEF Client
  <2>6. Eligible(new) # {} /\ ComesFirst(new, p)
    BY <1>4, <2>1, <2>4, <2>5, SameChoice
  <2> QED BY <2>1, <2>4, <2>5, <2>6 DEF FollowsFirst, Idle, poll
<1> QED BY <1>2, <1>3, <1>4, ChosenComesFirst

\* A client that follows the first player, or nobody.
Right(c, progress) == c \in Client /\ FollowsFirst(c, progress) /\ Idle(c)

LEMMA NewClientIsRight ==
  ASSUME NEW tracked \in Seq(Player), NEW progress \in BOOLEAN
  PROVE  Right(NewClient(tracked), progress)
<1> DEFINE c == NewClient(tracked)
<1>1. NoInfo \in Infos /\ NoInfo.status # "Playing"
  BY BusAssumption DEF NoInfo, Infos, Status
<1>2. c \in Client
  BY <1>1 DEF NewClient, Client
<1>3. Eligible(c) = {}
  BY DEF NewClient, Eligible, Candidates
<1> QED BY <1>1, <1>2, <1>3 DEF NewClient, Right, FollowsFirst, Idle

\* A player that has just come is nobody's choice yet.
LEMMA AddPlayerIsRight ==
  ASSUME NEW c, NEW progress \in BOOLEAN, Right(c, progress), NEW p \in Player
  PROVE  Right(AddPlayer(c, p), progress)
<1> DEFINE d == [c EXCEPT !.known = @ \cup {p}, !.info[p] = NoInfo]
<1>1. c \in Client /\ FollowsFirst(c, progress) /\ Idle(c)
  BY DEF Right
<1>2. NoInfo \in Infos /\ NoInfo.status \notin {"Playing", "Paused"}
  BY BusAssumption DEF NoInfo, Infos, Status
<1>3. CASE p \notin c.known
  <2>1. /\ d.known = c.known \cup {p} /\ d.info = [c.info EXCEPT ![p] = NoInfo]
        /\ d.active = c.active /\ d.shown = c.shown /\ d.poll = c.poll
        /\ d.preferred = c.preferred /\ d.tracked = c.tracked
    BY <1>1 DEF Client
  <2>2. d \in Client
    BY <1>1, <1>2, <2>1 DEF Client
  <2> HIDE DEF d
  <2>3. p \notin Eligible(c)
    BY <1>3 DEF Eligible, Candidates
  <2>4. \A q \in Player \ {p} : d.info[q] = c.info[q]
    BY <1>1, <2>1 DEF Client
  <2>5. d.info[p] = NoInfo
    BY <1>1, <2>1 DEF Client
  <2>6. p \notin Eligible(d)
    BY <1>2, <2>5 DEF Eligible
  <2>7. \A q \in Player \ {p} : q \in Candidates(d) <=> q \in Candidates(c)
    BY <2>1 DEF Candidates
  <2>8. Eligible(d) \subseteq Player /\ Eligible(c) \subseteq Player /\ None \notin Eligible(c)
    BY <1>1, <2>2, EligiblePlayers
  <2>9. \A q \in Player \ {p} : q \in Eligible(d) <=> q \in Eligible(c)
    BY <2>4, <2>7 DEF Eligible
  <2>10. Eligible(d) = Eligible(c)
    BY <2>3, <2>6, <2>8, <2>9
  <2>11. \A q \in Eligible(c) : ClassIn(d, q) = ClassIn(c, q) /\ PriorityOf(d, q) = PriorityOf(c, q)
    BY <2>1, <2>3, <2>4, <2>8 DEF ClassIn, PriorityOf
  <2>12. \A q : ComesFirst(c, q) => ComesFirst(d, q)
    BY <2>10, <2>11 DEF ComesFirst
  <2>13. c.active # None => c.active \in Eligible(c) /\ d.info[c.active] = c.info[c.active]
    BY <1>1, <2>3, <2>4, <2>8 DEF FollowsFirst, ComesFirst
  <2>14. FollowsFirst(d, progress)
    BY <1>1, <2>1, <2>10, <2>12, <2>13 DEF FollowsFirst
  <2>15. Idle(d)
    BY <1>1, <2>1 DEF Idle
  <2>16. AddPlayer(c, p) = d
    BY <1>3 DEF AddPlayer, d
  <2> QED BY <2>2, <2>14, <2>15, <2>16 DEF Right
<1> QED BY <1>3 DEF AddPlayer

\* Everything else that changes what is known ends in reevaluateActive.
LEMMA ReevaluatesRight ==
  ASSUME NEW c, NEW d \in Client, NEW before, Right(c, before),
         d.active = c.active, d.shown = c.shown, d.poll = c.poll,
         NEW force \in BOOLEAN, NEW progress \in BOOLEAN
  PROVE  Right(Reevaluate(d, force, progress).client, progress)
<1>1. Idle(d)
  BY DEF Right, Idle
<1> QED BY <1>1, ReevaluateFollowsFirst DEF Right

LEMMA RemovePlayerIsRight ==
  ASSUME NEW c, NEW progress \in BOOLEAN, Right(c, progress), NEW p \in Player
  PROVE  Right(RemovePlayer(c, p, progress).client, progress)
<1> DEFINE d == [c EXCEPT !.known = @ \ {p}, !.info[p] = NoInfo]
<1>1. c \in Client /\ NoInfo \in Infos
  BY DEF Right, NoInfo, Infos
<1>2. /\ d \in Client
      /\ d.active = c.active /\ d.shown = c.shown /\ d.poll = c.poll
  BY <1>1 DEF Client
<1> HIDE DEF d
<1>3. Right(Reevaluate(d, FALSE, progress).client, progress)
  BY <1>2, ReevaluatesRight
<1>4. RemovePlayer(c, p, progress).client \in {c, Reevaluate(d, FALSE, progress).client}
  BY DEF RemovePlayer, Done, d
<1> QED BY <1>3, <1>4

LEMMA ApplyPropertiesIsRight ==
  ASSUME NEW c, NEW progress \in BOOLEAN, Right(c, progress),
         NEW m, m.player \in Player, m.info \in Infos
  PROVE  Right(ApplyProperties(c, m, progress).client, progress)
<1> DEFINE told == [status |-> Merge(m.info.status, c.info[m.player].status),
                    track |-> Merge(m.info.track, c.info[m.player].track)]
           d == [c EXCEPT !.info[m.player] = told]
<1>1. c \in Client
  BY DEF Right
<1>2. told \in Infos
  BY <1>1 DEF Infos, Client, Merge
<1> HIDE DEF told
<1>3. /\ d \in Client
      /\ d.active = c.active /\ d.shown = c.shown /\ d.poll = c.poll
  BY <1>1, <1>2 DEF Client
<1> HIDE DEF d
<1>4. Right(Reevaluate(d, FALSE, progress).client, progress)
  BY <1>3, ReevaluatesRight
<1>5. ApplyProperties(c, m, progress).client
         \in {c, Reevaluate(d, FALSE, progress).client}
  BY DEF ApplyProperties, Done, d, told
<1> QED BY <1>4, <1>5

LEMMA SetPreferredAppIsRight ==
  ASSUME NEW c, NEW progress \in BOOLEAN, Right(c, progress), NEW p \in Player \cup {None}
  PROVE  Right(SetPreferredApp(c, p, progress).client, progress)
<1> DEFINE d == [c EXCEPT !.preferred = p]
<1>1. /\ d \in Client
      /\ d.active = c.active /\ d.shown = c.shown /\ d.poll = c.poll
  BY DEF Client, Right
<1> HIDE DEF d
<1>2. Right(Reevaluate(d, TRUE, progress).client, progress)
  BY <1>1, ReevaluatesRight
<1>3. SetPreferredApp(c, p, progress).client \in {c, Reevaluate(d, TRUE, progress).client}
  BY DEF SetPreferredApp, Done, d
<1> QED BY <1>2, <1>3

\* The setting may change with it.
LEMMA ReloadIsRight ==
  ASSUME NEW c, NEW before, Right(c, before),
         NEW progress \in BOOLEAN, NEW tracked \in Seq(Player)
  PROVE  Right(Reload(c, tracked, progress).client, progress)
<1> DEFINE d == [c EXCEPT !.tracked = tracked]
<1>1. /\ d \in Client
      /\ d.active = c.active /\ d.shown = c.shown /\ d.poll = c.poll
  BY DEF Client, Right
<1> HIDE DEF d
<1>2. Right(Reevaluate(d, TRUE, progress).client, progress)
  BY <1>1, ReevaluatesRight
<1> QED BY <1>2 DEF Reload, d

-----------------------------------------------------------------------------
(* What is known of the players changes in the messages' handlers alone.   *)

LEMMA ReevaluateKeepsKnown ==
  ASSUME NEW c \in Client, NEW force \in BOOLEAN, NEW progress \in BOOLEAN
  PROVE  LET r == Reevaluate(c, force, progress)
         IN  /\ r.client.known = c.known /\ r.client.info = c.info
             /\ r.signals.position = Silence
<1> DEFINE p == Chosen(c)
           new == c.info[p]
           poll == progress /\ new.status = "Playing"
           r == Reevaluate(c, force, progress)
<1>1. CASE p # None
  <2>1. r.client = [c EXCEPT !.active = p, !.shown = new, !.poll = poll]
    BY <1>1, Zenon DEF Reevaluate, Follows, Done
  <2>2. \E s1, s2, s3 : r.signals = [Quiet EXCEPT !.art = s1, !.track = s2, !.status = s3]
    BY <1>1, Zenon DEF Reevaluate, Follows, Done
  <2> HIDE DEF r, poll
  <2>3. r.client.known = c.known /\ r.client.info = c.info
    BY <2>1 DEF Client
  <2>4. r.signals.position = Silence
    <3>1. PICK s1, s2, s3 : r.signals = [Quiet EXCEPT !.art = s1, !.track = s2, !.status = s3]
      BY <2>2
    <3> QED BY <3>1 DEF Quiet
  <2> QED BY <2>3, <2>4 DEF r
<1>2. CASE p = None
  <2>1. \/ r.client = [c EXCEPT !.active = None, !.shown = NoInfo, !.poll = FALSE]
        \/ r.client = c
    BY <1>2, Zenon DEF Reevaluate, LosesPlayer, Done
  <2>2. \/ \E s1, s2 : r.signals = [Quiet EXCEPT !.art = s1, !.none = s2]
        \/ r.signals = Quiet
    BY <1>2, Zenon DEF Reevaluate, LosesPlayer, Done
  <2> HIDE DEF r
  <2>3. r.client.known = c.known /\ r.client.info = c.info
    BY <2>1 DEF Client
  <2>4. r.signals.position = Silence
    <3>1. CASE r.signals = Quiet
      BY <3>1 DEF Quiet
    <3>2. CASE \E s1, s2 : r.signals = [Quiet EXCEPT !.art = s1, !.none = s2]
      <4>1. PICK s1, s2 : r.signals = [Quiet EXCEPT !.art = s1, !.none = s2]
        BY <3>2
      <4> QED BY <4>1 DEF Quiet
    <3> QED BY <2>2, <3>1, <3>2
  <2> QED BY <2>3, <2>4 DEF r
<1> QED BY <1>1, <1>2

LEMMA RemovePlayerKnows ==
  ASSUME NEW c \in Client, NEW p \in Player, NEW progress \in BOOLEAN
  PROVE  LET r == RemovePlayer(c, p, progress)
         IN  /\ r.client.known = c.known \ {p}
             /\ \A q \in Player \ {p} : r.client.info[q] = c.info[q]
             /\ r.signals.position = Silence
<1> DEFINE d == [c EXCEPT !.known = @ \ {p}, !.info[p] = NoInfo]
           r == RemovePlayer(c, p, progress)
<1>1. CASE p \in c.known
  <2>1. d \in Client
    BY DEF Client, Infos, NoInfo
  <2>2. d.known = c.known \ {p} /\ \A q \in Player \ {p} : d.info[q] = c.info[q]
    BY DEF Client
  <2>3. r = Reevaluate(d, FALSE, progress)
    BY <1>1 DEF RemovePlayer
  <2> HIDE DEF d, r
  <2>4. r.client.known = d.known /\ r.client.info = d.info /\ r.signals.position = Silence
    BY <2>1, <2>3, ReevaluateKeepsKnown
  <2> QED BY <2>2, <2>4 DEF r
<1>2. CASE p \notin c.known
  <2>1. r.client = c /\ r.signals = Quiet
    BY <1>2 DEF RemovePlayer, Done
  <2> HIDE DEF r
  <2>2. r.client.known = c.known \ {p} /\ r.signals.position = Silence
    BY <1>2, <2>1 DEF Quiet
  <2> QED BY <2>1, <2>2 DEF r
<1> QED BY <1>1, <1>2

\* A part that was not told stays; a position is told of the player that was and
\* is followed.
LEMMA ApplyPropertiesKnows ==
  ASSUME NEW c \in Client, NEW m, m.player \in Player, m.info \in Infos, NEW progress \in BOOLEAN
  PROVE  LET r == ApplyProperties(c, m, progress)
             new == r.client.info[m.player]
         IN  /\ r.client.known = c.known
             /\ \A q \in Player \ {m.player} : r.client.info[q] = c.info[q]
             /\ m.player \in c.known =>
                   /\ new.track = IF m.info.track = None THEN c.info[m.player].track ELSE m.info.track
                   /\ new.status = IF m.info.status = None THEN c.info[m.player].status ELSE m.info.status
             /\ r.signals.position.emitted =>
                   /\ r.signals.position.value = m.at
                   /\ c.active = m.player /\ r.client.active = m.player
<1> DEFINE told == [status |-> Merge(m.info.status, c.info[m.player].status),
                    track |-> Merge(m.info.track, c.info[m.player].track)]
           d == [c EXCEPT !.info[m.player] = told]
           e == Reevaluate(d, FALSE, progress)
           tells == m.at # None /\ c.active = m.player /\ e.client.active = m.player
           r == ApplyProperties(c, m, progress)
<1>1. told \in Infos
  BY DEF Infos, Client, Merge
<1>2. /\ told.track = IF m.info.track = None THEN c.info[m.player].track ELSE m.info.track
      /\ told.status = IF m.info.status = None THEN c.info[m.player].status ELSE m.info.status
  BY DEF Merge
<1> HIDE DEF told
<1>3. /\ d \in Client /\ d.known = c.known /\ d.info[m.player] = told
      /\ \A q \in Player \ {m.player} : d.info[q] = c.info[q]
  BY <1>1 DEF Client
<1>4. CASE m.player \in c.known
  <2>1. r = Done(e.client, [e.signals EXCEPT !.position = Signal(tells, m.at)])
    BY <1>4 DEF ApplyProperties, told
  <2> HIDE DEF d
  <2>2. e.client.known = d.known /\ e.client.info = d.info /\ e.signals.position = Silence
    BY <1>3, ReevaluateKeepsKnown
  <2>3. r.client = e.client /\ r.signals = [e.signals EXCEPT !.position = Signal(tells, m.at)]
    BY <2>1 DEF Done
  <2> HIDE DEF e, r, tells
  <2>4. r.signals.position = Signal(tells, m.at) \/ r.signals.position = Silence
    BY <2>2, <2>3
  <2>5. r.signals.position.emitted => r.signals.position.value = m.at /\ tells
    BY <2>4 DEF Signal, Silence
  <2>6. tells => c.active = m.player /\ e.client.active = m.player
    BY DEF tells
  <2>7. /\ r.client.known = c.known
        /\ \A q \in Player \ {m.player} : r.client.info[q] = c.info[q]
        /\ r.client.info[m.player] = told
    BY <1>3, <2>2, <2>3
  <2>8. r.signals.position.emitted =>
           /\ r.signals.position.value = m.at
           /\ c.active = m.player /\ r.client.active = m.player
    BY <2>3, <2>5, <2>6
  <2> QED BY <1>2, <2>7, <2>8 DEF r
<1>5. CASE m.player \notin c.known
  <2>1. r.client = c /\ r.signals = Quiet
    BY <1>5 DEF ApplyProperties, Done
  <2> HIDE DEF r
  <2>2. ~r.signals.position.emitted
    BY <2>1 DEF Quiet, Silence, Signal
  <2> QED BY <1>5, <2>1, <2>2 DEF r
<1> QED BY <1>4, <1>5

LEMMA AddPlayerKnows ==
  ASSUME NEW c \in Client, NEW p \in Player
  PROVE  /\ AddPlayer(c, p).known = c.known \cup {p}
         /\ \A q \in Player \ {p} : AddPlayer(c, p).info[q] = c.info[q]
  BY DEF AddPlayer, Client

\* The focus and the settings change nothing of it.
LEMMA ChoiceKnows ==
  ASSUME NEW c \in Client, NEW p \in Player \cup {None}, NEW tracked \in Seq(Player), NEW progress \in BOOLEAN
  PROVE  /\ LET r == SetPreferredApp(c, p, progress)
            IN  /\ r.client.known = c.known /\ r.client.info = c.info
                /\ r.signals.position = Silence
         /\ LET r == Reload(c, tracked, progress)
            IN  /\ r.client.known = c.known /\ r.client.info = c.info
                /\ r.signals.position = Silence
<1> DEFINE d == [c EXCEPT !.preferred = p]
           e == [c EXCEPT !.tracked = tracked]
<1>1. /\ d \in Client /\ d.known = c.known /\ d.info = c.info
      /\ e \in Client /\ e.known = c.known /\ e.info = c.info
  BY DEF Client
<1>2. SetPreferredApp(c, p, progress) \in {Done(c, Quiet), Reevaluate(d, TRUE, progress)}
  BY DEF SetPreferredApp
<1>3. Reload(c, tracked, progress) = Reevaluate(e, TRUE, progress)
  BY DEF Reload
<1> HIDE DEF d, e
<1>4. Done(c, Quiet).client = c /\ Done(c, Quiet).signals.position = Silence
  BY DEF Done, Quiet
<1>5. LET r == Reevaluate(d, TRUE, progress)
      IN  r.client.known = d.known /\ r.client.info = d.info /\ r.signals.position = Silence
  BY <1>1, ReevaluateKeepsKnown
<1>6. LET r == Reevaluate(e, TRUE, progress)
      IN  r.client.known = e.known /\ r.client.info = e.info /\ r.signals.position = Silence
  BY <1>1, ReevaluateKeepsKnown
<1> QED BY <1>1, <1>2, <1>3, <1>4, <1>5, <1>6, Zenon
=============================================================================
