----------------------------- MODULE WordsProofs -----------------------------
(* Titles for all rule lists, skills and caps; and Words, for all content, all  *)
(* that may be said of it and any number of commands that wait: what each       *)
(* command reaches, and the titles of the player who gives them.                *)
EXTENDS Words, WellFoundedInduction, TLAPS

LEMMA Least ==
  ASSUME NEW S, S \subseteq Nat, S # {}
  PROVE  \E m \in S : \A i \in S : m <= i
<1>1. PICK m \in S : \A i \in S : <<i, m>> \notin OpToRel(<, Nat)
  BY NatLessThanWellFounded, WFMin
<1>2. \A i \in S : ~(i < m)
  BY <1>1 DEF OpToRel
<1> QED BY <1>2

LEMMA TableParts ==
  ASSUME table \in Tables
  PROVE  /\ Len(table) \in Nat /\ DOMAIN table = 1..Len(table)
         /\ \A k \in 1..Len(table) :
              table[k].title \in Texts \cup {NoText} /\ table[k].announce \in Texts \cup {NoText}
<1>1. table \in Seq(Rules)
  BY TitlesAssumption
<1>2. Len(table) \in Nat /\ DOMAIN table = 1..Len(table) /\ \A k \in 1..Len(table) : table[k] \in Rules
  BY <1>1
<1> QED BY <1>2, TitlesAssumption

-----------------------------------------------------------------------------
(* The rule that names. *)

LEMMA OneNaming ==
  ASSUME table \in Tables, NEW rs, NEW k \in Naming(rs)
  PROVE  /\ k \in 1..Len(table)
         /\ \A j \in Naming(rs) : j = k
         /\ Title(rs) = table[k].title
<1>1. /\ k \in 1..Len(table)
      /\ \A j \in Naming(rs) : j \in 1..Len(table)
  <2>1. DOMAIN table = 1..Len(table)
    BY TableParts
  <2>2. Naming(rs) \subseteq DOMAIN table
    BY DEF Naming
  <2> QED BY <2>1, <2>2
<1>2. \A j \in Naming(rs) : j = k
  <2> SUFFICES ASSUME NEW j \in Naming(rs) PROVE ~(j < k) /\ ~(k < j)
    <3>1. \A j \in Naming(rs) : j \in Int /\ k \in Int
      BY <1>1, TableParts
    <3> QED BY <3>1
  <2>1. Matches(table[j], rs) /\ Matches(table[k], rs)
    BY DEF Naming
  <2>2. (\A i \in 1..(k - 1) : ~Matches(table[i], rs)) /\ (\A i \in 1..(j - 1) : ~Matches(table[i], rs))
    BY DEF Naming
  <2>3. j \in Int /\ k \in Int /\ 1 <= j /\ 1 <= k
    <3>1. j \in 1..Len(table) /\ k \in 1..Len(table)
      BY <1>1
    <3> QED BY <3>1
  <2>4. j < k => j \in 1..(k - 1)
    BY <2>3
  <2>5. k < j => k \in 1..(j - 1)
    BY <2>3
  <2> QED BY <2>1, <2>2, <2>4, <2>5
<1>3. (CHOOSE j \in Naming(rs) : TRUE) = k
  BY <1>2
<1> QED BY <1>1, <1>2, <1>3 DEF Title

\* The first rule that the ranks meet is there, at or before any they meet.
LEMMA Named ==
  ASSUME table \in Tables, NEW rs, NEW m \in 1..Len(table), Matches(table[m], rs)
  PROVE  \E k \in Naming(rs) : k <= m
<1> DEFINE S == {i \in 1..Len(table) : Matches(table[i], rs)}
<1>1. Len(table) \in Nat /\ DOMAIN table = 1..Len(table)
  BY TableParts
<1>2. S \subseteq Nat /\ S # {} /\ m \in S
  BY <1>1
<1>3. PICK k \in S : \A i \in S : k <= i
  <2> HIDE DEF S
  <2> QED BY <1>2, Least
<1>4. \A i \in 1..(k - 1) : i \in 1..Len(table) /\ ~(k <= i)
  BY <1>1
<1>5. \A i \in 1..(k - 1) : ~Matches(table[i], rs)
  BY <1>3, <1>4
<1>6. k \in Naming(rs)
  BY <1>1, <1>5 DEF Naming
<1> QED BY <1>2, <1>3, <1>6

\* Under a list that loads, everyone has a title.
LEMMA EveryoneNamed ==
  ASSUME table \in Tables, Loads(table), table # <<>>, NEW rs
  PROVE  Naming(rs) # {} /\ Title(rs) # NoText
<1>1. Len(table) \in 1..Len(table)
  <2>1. table \in Seq(Rules)
    BY TitlesAssumption
  <2> QED BY <2>1
<1>2. DOMAIN table[Len(table)].need = {}
  BY <1>1, TableParts DEF Loads
<1>3. PICK k \in Naming(rs) : TRUE
  BY <1>1, <1>2, Named DEF Matches
<1>4. k \in DOMAIN table /\ Title(rs) = table[k].title
  BY <1>3, OneNaming, TableParts
<1> QED BY <1>3, <1>4 DEF Loads, RuleLoads

\* Who gains ranks is named by the same rule or one before it.
LEMMA Climbs ==
  ASSUME table \in Tables, Loads(table),
         NEW old \in Ranks, NEW new \in Ranks, \A s \in Skills : old[s] <= new[s],
         NEW n \in Naming(old)
  PROVE  \E k \in Naming(new) : k <= n
<1>1. n \in 1..Len(table) /\ Matches(table[n], old) /\ n \in DOMAIN table
  BY OneNaming, TableParts DEF Naming
<1>2. DOMAIN table[n].need \subseteq Skills /\ \A s \in DOMAIN table[n].need : table[n].need[s] \in Int
  <2>1. RuleLoads(table[n])
    BY <1>1 DEF Loads
  <2> QED BY <2>1 DEF RuleLoads
<1>3. \A s \in Skills : old[s] \in Nat /\ new[s] \in Nat
  BY DEF Ranks
<1>4. Matches(table[n], new)
  BY <1>1, <1>2, <1>3 DEF Matches
<1> QED BY <1>1, <1>4, Named

LEMMA TrialRaises ==
  ASSUME NEW rs \in Ranks, NEW st \in [Stats -> Nat], NEW sk \in Skills,
         NEW t \in TryGain(rs, st, sk)
  PROVE  t[1] \in Ranks /\ t[2] \in [Stats -> Nat] /\ \A s \in Skills : rs[s] <= t[1][s]
<1>1. CASE t = <<rs, st>>
  <2>1. \A s \in Skills : rs[s] \in Nat
    BY DEF Ranks
  <2> QED BY <1>1, <2>1
<1>2. CASE t \in {Raise(rs, sk)} \X ({st} \cup {Raise(st, x) : x \in {y \in {StatOf[sk]} : CanGrow(st, y)}})
  <2>1. t[1] = Raise(rs, sk)
    BY <1>2
  <2>2. t[2] = st \/ t[2] = Raise(st, StatOf[sk])
    BY <1>2
  <2>3. t[1] \in Ranks /\ \A s \in Skills : rs[s] <= t[1][s]
    BY <2>1 DEF Raise, Ranks
  <2>4. StatOf[sk] \in Stats
    BY SkillAssumption
  <2>5. Raise(st, StatOf[sk]) \in [Stats -> Nat]
    BY <2>4 DEF Raise
  <2>6. t[2] \in [Stats -> Nat]
    BY <2>2, <2>5
  <2> QED BY <2>3, <2>6
<1> QED BY <1>1, <1>2 DEF TryGain

LEMMA TitleText ==
  ASSUME table \in Tables, NEW rs
  PROVE  Title(rs) \in Texts \cup {NoText}
<1>1. CASE Naming(rs) = {}
  BY <1>1 DEF Title
<1>2. ASSUME NEW k \in Naming(rs) PROVE Title(rs) \in Texts \cup {NoText}
  <2>1. k \in 1..Len(table) /\ Title(rs) = table[k].title
    BY OneNaming
  <2> QED BY <2>1, TableParts
<1> QED BY <1>1, <1>2

-----------------------------------------------------------------------------
(* What was heard, and what the player is called. *)

\* No rule that was announced is before the one that names the player now.
Behind == \A i \in DOMAIN heard : \A n \in Naming(ranks) : n <= heard[i]

IInv ==
  /\ TypeOK
  /\ phase \in {"away", "in"} => Loads(table)
  /\ Behind /\ HeardOnce /\ KnownAs

LEMMA Begin == Init => IInv
<1> SUFFICES ASSUME Init PROVE IInv
  OBVIOUS
<1>1. TypeOK
  BY DEF Init, TypeOK, Ranks
<1>2. Behind /\ HeardOnce /\ KnownAs
  BY DEF Init, Behind, HeardOnce, KnownAs
<1> QED BY <1>1, <1>2 DEF IInv, Init

\* An announcement is of a rule before all those announced already.
LEMMA HearsBetter ==
  ASSUME IInv, phase = "in", NEW new \in Ranks, \A s \in Skills : ranks[s] <= new[s],
         NEW k \in Announced(ranks, new)
  PROVE  /\ k \in 1..Len(table) /\ k \in Naming(new)
         /\ \A i \in DOMAIN heard : k < heard[i]
<1>1. table \in Tables /\ Loads(table) /\ ranks \in Ranks
  BY DEF IInv, TypeOK
<1>2. /\ k \in Naming(new) /\ Title(new) # Title(ranks)
  BY DEF Announced
<1>3. k \in 1..Len(table)
  BY <1>1, <1>2, OneNaming
<1>4. PICK n \in Naming(ranks) : TRUE
  <2>1. table # <<>>
    BY <1>3
  <2> QED BY <1>1, <2>1, EveryoneNamed
<1>5. PICK m \in Naming(new) : m <= n
  BY <1>1, <1>4, Climbs
<1>6. m = k /\ n \in 1..Len(table) /\ Title(new) = table[k].title /\ Title(ranks) = table[n].title
  BY <1>1, <1>2, <1>4, <1>5, OneNaming
<1>7. k < n
  <2>1. k <= n /\ k # n
    BY <1>2, <1>5, <1>6
  <2>2. k \in Nat /\ n \in Nat
    BY <1>3, <1>6
  <2> QED BY <2>1, <2>2
<1>8. \A i \in DOMAIN heard : heard[i] \in 1..Len(table) /\ n <= heard[i]
  BY <1>4 DEF IInv, TypeOK, Behind
<1>9. \A i \in DOMAIN heard : k < heard[i]
  <2> SUFFICES ASSUME NEW i \in DOMAIN heard PROVE k < heard[i]
    OBVIOUS
  <2>1. heard[i] \in Nat /\ n \in Nat /\ k \in Nat
    BY <1>3, <1>6, <1>8
  <2> QED BY <1>7, <1>8, <2>1
<1> QED BY <1>2, <1>3, <1>9

\* A gain that is not announced leaves the title, if only the last rule is silent.
LEMMA SilentKeepsTitle ==
  ASSUME IInv, phase = "in", table # <<>>, NEW new \in Ranks, \A s \in Skills : ranks[s] <= new[s],
         Announced(ranks, new) = {},
         \A k \in 1..(Len(table) - 1) : table[k].announce # NoText
  PROVE  Title(new) = Title(ranks)
<1>1. table \in Tables /\ Loads(table) /\ ranks \in Ranks /\ Len(table) \in Nat
  BY TableParts DEF IInv, TypeOK
<1>2. PICK n \in Naming(ranks) : TRUE
  BY <1>1, EveryoneNamed
<1>3. PICK k \in Naming(new) : k <= n
  BY <1>1, <1>2, Climbs
<1>4. /\ n \in 1..Len(table) /\ Title(ranks) = table[n].title
      /\ k \in 1..Len(table) /\ Title(new) = table[k].title
  BY <1>1, <1>2, <1>3, OneNaming
<1>5. Title(new) # NoText
  BY <1>1, EveryoneNamed
<1>6. CASE table[k].announce = NoText
  <2>1. ~(k \in 1..(Len(table) - 1))
    BY <1>6
  <2>2. k = Len(table) /\ n = k
    BY <1>1, <1>3, <1>4, <2>1
  <2> QED BY <1>4, <2>2
<1>7. CASE table[k].announce # NoText
  <2>1. k \notin Announced(ranks, new)
    OBVIOUS
  <2>2. ranks = new \/ Title(new) \in {NoText, Title(ranks)}
    BY <1>3, <1>7, <2>1 DEF Announced
  <2> QED BY <1>5, <2>2
<1> QED BY <1>6, <1>7

LEMMA PracticeStep ==
  ASSUME IInv, NEW sk \in Skills, Practice(sk)
  PROVE  IInv'
<1>1. /\ phase = "in" /\ phase' = "in" /\ table' = table /\ asWhom' = asWhom
      /\ table \in Tables /\ Loads(table) /\ ranks \in Ranks
  BY DEF Practice, IInv, TypeOK
<1>2. PICK t \in TryGain(ranks, stats, sk) :
        /\ ranks' = t[1] /\ stats' = t[2]
        /\ IF Announced(ranks, t[1]) = {} THEN UNCHANGED heard
           ELSE \E k \in Announced(ranks, t[1]) : heard' = Append(heard, k)
  BY DEF Practice
<1>3. /\ ranks' \in Ranks /\ stats' \in [Stats -> Nat]
      /\ \A s \in Skills : ranks[s] <= ranks'[s]
  <2>1. stats \in [Stats -> Nat]
    BY DEF IInv, TypeOK
  <2> QED BY <1>1, <1>2, <2>1, TrialRaises
<1>4. heard \in Seq(1..Len(table)) /\ Len(table) \in Nat /\ \A i \in DOMAIN heard : heard[i] \in 1..Len(table)
  BY <1>1, TableParts DEF IInv, TypeOK
<1>5. Loads(table)'
  BY <1>1 DEF Loads, RuleLoads
<1>6. Naming(ranks)' = Naming(ranks') /\ Title(ranks)' = Title(ranks')
  BY <1>1 DEF Naming, Title, Matches
<1>7. CASE Announced(ranks, ranks') = {}
  <2>1. heard' = heard
    BY <1>2, <1>7
  <2>2. Behind'
    <3> SUFFICES ASSUME NEW i \in DOMAIN heard, NEW n \in Naming(ranks') PROVE n <= heard[i]
      BY <1>6, <2>1 DEF Behind
    <3>1. n \in 1..Len(table) /\ heard[i] \in 1..Len(table)
      BY <1>1, <1>4, OneNaming
    <3>2. PICK m \in Naming(ranks) : TRUE
      <4>1. table # <<>>
        BY <3>1
      <4> QED BY <1>1, <4>1, EveryoneNamed
    <3>3. PICK k \in Naming(ranks') : k <= m
      BY <1>1, <1>3, <3>2, Climbs
    <3>4. k = n /\ m <= heard[i] /\ m \in 1..Len(table)
      BY <1>1, <3>2, <3>3, OneNaming DEF IInv, Behind
    <3> QED BY <3>1, <3>3, <3>4, <1>4
  <2>3. HeardOnce'
    BY <2>1 DEF IInv, HeardOnce
  <2>4. KnownAs'
    <3> SUFFICES ASSUME table # <<>>
                 PROVE  /\ Title(ranks') # NoText
                        /\ (\A k \in 1..(Len(table) - 1) : table[k].announce # NoText) =>
                             Title(ranks') = IF heard = <<>> THEN asWhom ELSE table[heard[Len(heard)]].title
      BY <1>1, <1>6, <2>1 DEF KnownAs
    <3>1. Title(ranks') # NoText
      BY <1>1, EveryoneNamed
    <3>2. (\A k \in 1..(Len(table) - 1) : table[k].announce # NoText) => Title(ranks') = Title(ranks)
      BY <1>1, <1>3, <1>7, SilentKeepsTitle
    <3> QED BY <1>1, <3>1, <3>2 DEF IInv, KnownAs
  <2>5. TypeOK'
    BY <1>1, <1>3, <2>1 DEF IInv, TypeOK
  <2> QED BY <1>5, <2>2, <2>3, <2>4, <2>5 DEF IInv
<1>8. CASE Announced(ranks, ranks') # {}
  <2>1. PICK k \in Announced(ranks, ranks') : heard' = Append(heard, k)
    BY <1>2, <1>8
  <2>2. /\ k \in 1..Len(table) /\ k \in Naming(ranks')
        /\ \A i \in DOMAIN heard : k < heard[i]
    BY <1>1, <1>3, <2>1, HearsBetter
  <2>3. /\ heard' \in Seq(1..Len(table)) /\ Len(heard) \in Nat /\ Len(heard') = Len(heard) + 1
        /\ DOMAIN heard = 1..Len(heard) /\ DOMAIN heard' = 1..(Len(heard) + 1)
        /\ heard'[Len(heard) + 1] = k
        /\ \A i \in 1..Len(heard) : heard'[i] = heard[i]
    BY <1>4, <2>1, <2>2
  <2>4. HeardOnce'
    <3> SUFFICES ASSUME NEW i \in 1..(Len(heard) + 1), NEW j \in 1..(Len(heard) + 1), i < j
                 PROVE  heard'[j] < heard'[i]
      BY <2>3 DEF HeardOnce
    <3>1. CASE j = Len(heard) + 1
      BY <2>2, <2>3, <3>1
    <3>2. CASE j # Len(heard) + 1
      <4>1. i \in DOMAIN heard /\ j \in DOMAIN heard
        BY <2>3, <3>2
      <4>2. heard[j] < heard[i]
        BY <4>1 DEF IInv, HeardOnce
      <4> QED BY <2>3, <4>1, <4>2
    <3> QED BY <3>1, <3>2
  <2>5. Behind'
    <3> SUFFICES ASSUME NEW i \in 1..(Len(heard) + 1), NEW n \in Naming(ranks') PROVE n <= heard'[i]
      BY <1>6, <2>3 DEF Behind
    <3>1. n = k
      BY <1>1, <2>2, OneNaming
    <3>2. CASE i = Len(heard) + 1
      BY <2>2, <2>3, <3>1, <3>2, <1>4
    <3>3. CASE i # Len(heard) + 1
      <4>1. i \in DOMAIN heard
        BY <2>3, <3>3
      <4>2. k < heard[i] /\ heard[i] \in 1..Len(table)
        BY <1>4, <2>2, <4>1
      <4> QED BY <2>2, <2>3, <3>1, <4>1, <4>2, <1>4
    <3> QED BY <3>2, <3>3
  <2>6. KnownAs'
    <3>1. Title(ranks') = table[k].title /\ Title(ranks') # NoText
      BY <1>1, <2>1, <2>2, OneNaming DEF Announced
    <3>2. heard' # <<>> /\ heard'[Len(heard')] = k
      BY <2>3
    <3> QED BY <1>1, <1>6, <3>1, <3>2 DEF KnownAs
  <2>7. TypeOK'
    BY <1>1, <1>3, <2>3 DEF IInv, TypeOK
  <2> QED BY <1>5, <2>4, <2>5, <2>6, <2>7 DEF IInv
<1> QED BY <1>7, <1>8

LEMMA Step == IInv /\ [Next]_vars => IInv'
<1> SUFFICES ASSUME IInv, [Next]_vars PROVE IInv'
  OBVIOUS
<1> USE DEF IInv
<1>1. CASE Boot
  <2>1. /\ table' = table /\ ranks' = ranks /\ stats' = stats /\ asWhom' = asWhom /\ heard' = heard
        /\ phase' \in {"away", "refused"} /\ (phase' = "away" => Loads(table))
    BY <1>1 DEF Boot
  <2>2. TypeOK'
    BY <2>1 DEF TypeOK
  <2>3. Behind' /\ HeardOnce' /\ KnownAs' /\ (Loads(table) => Loads(table)')
    BY <2>1 DEF Behind, HeardOnce, KnownAs, Naming, Matches, Loads, RuleLoads
  <2> QED BY <2>1, <2>2, <2>3
<1>2. CASE Enter
  <2>1. /\ table' = table /\ ranks' = ranks /\ stats' = stats /\ heard' = <<>>
        /\ asWhom' = Title(ranks) /\ phase' = "in" /\ Loads(table) /\ table \in Tables
    BY <1>2 DEF Enter, TypeOK
  <2>2. TypeOK'
    BY <2>1, TitleText DEF TypeOK
  <2>3. Behind' /\ HeardOnce' /\ Loads(table)'
    BY <2>1 DEF Behind, HeardOnce, Loads, RuleLoads
  <2>4. Title(ranks)' = Title(ranks)
    BY <2>1 DEF Title, Naming, Matches
  <2>5. KnownAs'
    BY <2>1, <2>4, EveryoneNamed DEF KnownAs
  <2> QED BY <2>2, <2>3, <2>5
<1>3. CASE Leave
  <2>1. /\ table' = table /\ ranks' = ranks /\ stats' = stats /\ asWhom' = asWhom /\ heard' = heard
        /\ phase = "in" /\ phase' = "away"
    BY <1>3 DEF Leave
  <2>2. TypeOK'
    BY <2>1 DEF TypeOK
  <2>3. Behind' /\ HeardOnce' /\ KnownAs' /\ Loads(table)'
    BY <2>1 DEF Behind, HeardOnce, KnownAs, Naming, Matches, Loads, RuleLoads
  <2> QED BY <2>2, <2>3
<1>4. CASE Refused \/ UNCHANGED vars
  <2>1. /\ table' = table /\ phase' = phase /\ ranks' = ranks /\ stats' = stats
        /\ asWhom' = asWhom /\ heard' = heard
    BY <1>4 DEF Refused, vars
  <2>2. TypeOK'
    BY <2>1 DEF TypeOK
  <2>3. (Loads(table) => Loads(table)') /\ Naming(ranks)' = Naming(ranks)
    BY <2>1 DEF Naming, Matches, Loads, RuleLoads
  <2>4. Title(ranks)' = Title(ranks)
    BY <2>1, <2>3 DEF Title
  <2> QED BY <2>1, <2>2, <2>3, <2>4 DEF Behind, HeardOnce, KnownAs
<1>5. CASE \E sk \in Skills : Practice(sk)
  BY <1>5, PracticeStep
<1> QED BY <1>1, <1>2, <1>3, <1>4, <1>5 DEF Next

\* The invariant that the theorems below read their parts off.
LEMMA Kept == Spec => []IInv
BY Begin, Step, PTL DEF Spec

\* Whatever list the catalog holds, the model's variables keep their types.
THEOREM TypeCorrect == Spec => []TypeOK
<1>1. IInv => TypeOK
  BY DEF IInv
<1> QED BY <1>1, Kept, PTL

\* An announcement is heard once, for every list that loads and every mix of
\* skills (practice.go:36, livelihood.go:437).
THEOREM HeardOnlyOnce == Spec => []HeardOnce
<1>1. IInv => HeardOnce
  BY DEF IInv
<1> QED BY <1>1, Kept, PTL

\* A player has a title, and knows it: the first rule of the list that the ranks
\* meet (Catalog.Title) is the one announced last.
THEOREM KnowsTitle == Spec => []KnownAs
<1>1. IInv => KnownAs
  BY DEF IInv
<1> QED BY <1>1, Kept, PTL

-----------------------------------------------------------------------------
(* What a word names. *)

\* An entry's place in a list is a number, and the entry is among its entries.
LEMMA Entries ==
  ASSUME NEW list, list \in Seq(ToSet(list))
  PROVE  /\ DOMAIN list \subseteq Nat
         /\ \A k \in DOMAIN list : list[k] \in ToSet(list)
         /\ \A x \in ToSet(list) : \E k \in DOMAIN list : x = list[k]
<1>1. DOMAIN list = 1..Len(list) /\ Len(list) \in Nat
  OBVIOUS
<1> QED BY <1>1 DEF ToSet

LEMMA FirstFits ==
  ASSUME NEW list, list \in Seq(ToSet(list)), NEW fits, fits \subseteq DOMAIN list, fits # {}
  PROVE  Min(fits) \in fits
<1>1. fits \subseteq Nat
  BY Entries
<1>2. \E m \in fits : \A i \in fits : m <= i
  BY <1>1, Least
<1> QED BY <1>2 DEF Min

\* First finds one that fits, and nothing only if none does.
LEMMA Found ==
  ASSUME NEW list, list \in Seq(ToSet(list)), NEW fits, fits \subseteq DOMAIN list,
         NEW kind, kind # "nothing"
  PROVE  /\ fits = {} => First(kind, list, fits) = Nothing
         /\ fits # {} => /\ First(kind, list, fits) # Nothing
                         /\ \E k \in fits : First(kind, list, fits) = <<kind, list[k].id>>
<1>1. CASE fits = {}
  BY <1>1 DEF First
<1>2. CASE fits # {}
  <2>1. Min(fits) \in fits
    BY <1>2, FirstFits
  <2>2. First(kind, list, fits) = <<kind, list[Min(fits)].id>>
    BY <1>2 DEF First
  <2>3. <<kind, list[Min(fits)].id>> # Nothing
    BY DEF Nothing
  <2> QED BY <1>2, <2>1, <2>2, <2>3
<1> QED BY <1>1, <1>2

LEMMA PersonFound ==
  ASSUME cast.people \in Seq(ToSet(cast.people)), NEW r, NEW w
  PROVE  /\ People(r, w) = {} => PersonHere(r, w) = Nothing
         /\ People(r, w) # {} => PersonHere(r, w) \in People(r, w) /\ PersonHere(r, w) # Nothing
<1> DEFINE fits == {k \in DOMAIN cast.people : cast.people[k].room = r /\ Bears(cast.people[k], w)}
<1>1. PersonHere(r, w) = First("person", cast.people, fits)
  BY DEF PersonHere
<1>2. \A k \in fits : <<"person", cast.people[k].id>> \in People(r, w)
  BY Entries DEF People
<1>3. People(r, w) # {} => fits # {}
  BY Entries DEF People
<1>4. fits \subseteq DOMAIN cast.people
  OBVIOUS
<1> HIDE DEF fits
<1> QED BY <1>1, <1>2, <1>3, <1>4, Found

LEMMA ThingFound ==
  ASSUME cast.things \in Seq(ToSet(cast.things)), NEW r, NEW w
  PROVE  /\ Things(r, w) = {} => ThingHere(r, w) = Nothing
         /\ Things(r, w) # {} => ThingHere(r, w) \in Things(r, w)
<1> DEFINE fits == {k \in DOMAIN cast.things : cast.things[k].room = r /\ Bears(cast.things[k], w)}
<1>1. ThingHere(r, w) = First("thing", cast.things, fits)
  BY DEF ThingHere
<1>2. \A k \in fits : <<"thing", cast.things[k].id>> \in Things(r, w)
  BY Entries DEF Things
<1>3. Things(r, w) # {} => fits # {}
  BY Entries DEF Things
<1>4. fits \subseteq DOMAIN cast.things
  OBVIOUS
<1> HIDE DEF fits
<1> QED BY <1>1, <1>2, <1>3, <1>4, Found

\* Who or what a look reaches, and a talk.
LEMMA MeantReached ==
  ASSUME cast.people \in Seq(ToSet(cast.people)), cast.things \in Seq(ToSet(cast.things)),
         NEW r, NEW w
  PROVE  /\ Examine(r, w) \in OrNothing(Meant("look", r, w))
         /\ PersonHere(r, w) \in OrNothing(Meant("talk", r, w))
<1>1. CASE People(r, w) # {}
  <2>1. Meant("look", r, w) = People(r, w) /\ Meant("talk", r, w) = People(r, w)
    BY <1>1 DEF Meant
  <2>2. Examine(r, w) = PersonHere(r, w) /\ PersonHere(r, w) \in People(r, w)
    BY <1>1, PersonFound DEF Examine, Else
  <2> QED BY <1>1, <2>1, <2>2 DEF OrNothing
<1>2. CASE People(r, w) = {}
  <2>1. Meant("look", r, w) = Things(r, w) /\ Meant("talk", r, w) = {}
    BY <1>2 DEF Meant
  <2>2. PersonHere(r, w) = Nothing /\ Examine(r, w) = ThingHere(r, w)
    BY <1>2, PersonFound DEF Examine, Else
  <2> QED BY <2>1, <2>2, ThingFound DEF OrNothing
<1> QED BY <1>1, <1>2

\* A word that a skill has to itself finds that skill.
LEMMA LooksUp ==
  ASSUME book \in Seq(ToSet(book)), NEW v, NEW s \in ToSet(book), Means(v, s)
  PROVE  Lookup(v) = <<"skill", s.id>> /\ Lookup(v) # Nothing
<1> DEFINE ids   == {k \in DOMAIN book : book[k].id = v}
           words == {k \in DOMAIN book : v \in book[k].names \cup ToSet(book[k].verbs)}
<1>1. Lookup(v) = Else(First("skill", book, ids), First("skill", book, words))
  BY DEF Lookup, Means
<1>2. \A k \in ids \cup words : book[k] = s
  BY Entries DEF Means
<1>3. ids \cup words # {}
  BY Entries DEF Means
<1>4. ids \subseteq DOMAIN book /\ words \subseteq DOMAIN book
  OBVIOUS
<1> HIDE DEF ids, words
<1>5. ids = {} => First("skill", book, ids) = Nothing /\ words # {}
  BY <1>3, <1>4, Found
<1>6. ids # {} => First("skill", book, ids) = <<"skill", s.id>> /\ First("skill", book, ids) # Nothing
  BY <1>2, <1>4, Found
<1>7. words # {} => First("skill", book, words) = <<"skill", s.id>> /\ First("skill", book, words) # Nothing
  BY <1>2, <1>4, Found
<1> QED BY <1>1, <1>5, <1>6, <1>7 DEF Else

LEMMA RecipeFound ==
  ASSUME NEW w
  PROVE  LET fit == {q \in ToSet(Recipes) : w \in {q.id, q.out}} IN
         /\ fit = {} => LookupRecipe(w) = Nothing
         /\ fit # {} => /\ LookupRecipe(w) # Nothing
                        /\ \E q \in fit : LookupRecipe(w) = <<"recipe", q.id>>
<1> DEFINE fit  == {q \in ToSet(Recipes) : w \in {q.id, q.out}}
           fits == {k \in DOMAIN Recipes : w \in {Recipes[k].id, Recipes[k].out}}
<1>1. Recipes \in Seq(ToSet(Recipes))
  BY WordsAssumption
<1>2. LookupRecipe(w) = First("recipe", Recipes, fits)
  BY DEF LookupRecipe
<1>3. (\A k \in fits : Recipes[k] \in fit) /\ (fit # {} => fits # {})
  BY <1>1, Entries
<1>4. fits \subseteq DOMAIN Recipes
  OBVIOUS
<1> HIDE DEF fit, fits
<1>5. /\ fit = {} => LookupRecipe(w) = Nothing
      /\ fit # {} => /\ LookupRecipe(w) # Nothing
                     /\ \E q \in fit : LookupRecipe(w) = <<"recipe", q.id>>
  <2>1. fit = {} => fits = {}
    BY <1>3
  <2> QED BY <1>1, <1>2, <1>3, <1>4, <2>1, Found
<1> QED BY <1>5 DEF fit

LEMMA GoodFound ==
  ASSUME NEW w
  PROVE  /\ Wares(w) = {} => Good(w) = Nothing
         /\ Wares(w) # {} => /\ Good(w) # Nothing
                             /\ \E g \in ToSet(Goods) : /\ w = g.id \/ w \in g.names
                                                        /\ Good(w) = <<"good", g.id>>
<1> DEFINE ids   == {k \in DOMAIN Goods : Goods[k].id = w}
           words == {k \in DOMAIN Goods : w \in Goods[k].names}
<1>1. Goods \in Seq(ToSet(Goods))
  BY WordsAssumption
<1>2. Good(w) = Else(First("good", Goods, ids), First("good", Goods, words))
  BY DEF Good
<1>3. \A k \in ids \cup words :
        /\ Goods[k] \in ToSet(Goods) /\ Goods[k].id \in Wares(w)
        /\ w = Goods[k].id \/ w \in Goods[k].names
  BY <1>1, Entries DEF Wares
<1>4. Wares(w) # {} => ids \cup words # {}
  BY <1>1, Entries DEF Wares
<1>5. ids \subseteq DOMAIN Goods /\ words \subseteq DOMAIN Goods
  OBVIOUS
<1> HIDE DEF ids, words
<1>6. CASE ids # {}
  <2>1. /\ First("good", Goods, ids) # Nothing
        /\ \E k \in ids : First("good", Goods, ids) = <<"good", Goods[k].id>>
    BY <1>1, <1>5, <1>6, Found
  <2> QED BY <1>2, <1>3, <1>6, <2>1 DEF Else
<1>7. CASE ids = {} /\ words # {}
  <2>1. /\ First("good", Goods, ids) = Nothing /\ First("good", Goods, words) # Nothing
        /\ \E k \in words : First("good", Goods, words) = <<"good", Goods[k].id>>
    BY <1>1, <1>5, <1>7, Found
  <2> QED BY <1>2, <1>3, <1>7, <2>1 DEF Else
<1>8. CASE ids = {} /\ words = {}
  <2>1. First("good", Goods, ids) = Nothing /\ First("good", Goods, words) = Nothing
    BY <1>1, <1>5, <1>8, Found
  <2> QED BY <1>2, <1>4, <1>8, <2>1 DEF Else
<1> QED BY <1>6, <1>7, <1>8

LEMMA TradeMeant ==
  ASSUME NEW op, NEW w, NEW got \in Traded(op, w)
  PROVE  got \in {<<"good", g>> : g \in Wares(w)} \cup {Nothing}
<1>1. Good(w) \in {<<"good", g>> : g \in Wares(w)} \cup {Nothing}
  BY GoodFound DEF Wares
<1> QED BY <1>1 DEF Traded

LEMMA DishMeant ==
  ASSUME NEW w
  PROVE  LET dishes == {<<"recipe", q.id>> : q \in Dishes(w)} IN
         /\ FindRecipe(w) \in dishes \cup {Nothing}
         /\ Wares(w) = {} \/ One(Wares(w)) => FindRecipe(w) \in OrNothing(dishes)
<1> DEFINE dishes == {<<"recipe", q.id>> : q \in Dishes(w)}
           fit(v) == {q \in ToSet(Recipes) : v \in {q.id, q.out}}
<1>1. \A v : /\ fit(v) = {} => LookupRecipe(v) = Nothing
             /\ fit(v) # {} => /\ LookupRecipe(v) # Nothing
                               /\ \E q \in fit(v) : LookupRecipe(v) = <<"recipe", q.id>>
  BY RecipeFound
<1>2. fit(w) \subseteq Dishes(w)
  BY DEF Dishes
<1>3. \A g \in ToSet(Goods) : w = g.id \/ w \in g.names => fit(g.id) \subseteq Dishes(w)
  BY DEF Dishes
<1>4. \A q \in Dishes(w) : q \in fit(w) \/ \E g \in ToSet(Goods) : w \in g.names /\ q \in fit(g.id)
  BY DEF Dishes
<1>5. \A q \in Dishes(w) : <<"recipe", q.id>> \in dishes
  OBVIOUS
<1>6. Dishes(w) = {} => dishes = {}
  OBVIOUS
<1> HIDE DEF dishes, fit
<1>7. CASE fit(w) # {}
  <2>1. FindRecipe(w) = LookupRecipe(w) /\ FindRecipe(w) \in dishes
    BY <1>1, <1>2, <1>5, <1>7 DEF FindRecipe, Else
  <2> QED BY <2>1 DEF OrNothing, dishes
<1>8. CASE fit(w) = {} /\ Wares(w) = {}
  <2>1. FindRecipe(w) = Nothing
    BY <1>1, <1>8, GoodFound DEF FindRecipe, Else
  <2>2. Dishes(w) = {}
    BY <1>4, <1>8 DEF Wares
  <2> QED BY <1>6, <2>1, <2>2 DEF OrNothing, dishes
<1>9. CASE fit(w) = {} /\ Wares(w) # {}
  <2>1. PICK g \in ToSet(Goods) : (w = g.id \/ w \in g.names) /\ Good(w) = <<"good", g.id>> /\ Good(w) # Nothing
    BY <1>9, GoodFound
  <2>2. FindRecipe(w) = LookupRecipe(g.id)
    BY <1>1, <1>9, <2>1 DEF FindRecipe, Else
  <2>3. CASE fit(g.id) # {}
    <3>1. FindRecipe(w) \in dishes
      BY <1>1, <1>3, <1>5, <2>1, <2>2, <2>3
    <3> QED BY <3>1 DEF OrNothing, dishes
  <2>4. CASE fit(g.id) = {}
    <3>1. FindRecipe(w) = Nothing
      BY <1>1, <2>2, <2>4
    <3>2. ASSUME One(Wares(w)) PROVE Dishes(w) = {}
      <4>1. \A h \in ToSet(Goods) : w \in h.names => h.id = g.id
        BY <2>1, <3>2 DEF One, Wares
      <4> QED BY <1>4, <1>9, <2>4, <4>1
    <3> QED BY <1>6, <1>9, <3>1, <3>2 DEF OrNothing, dishes
  <2> QED BY <2>3, <2>4
<1> QED BY <1>7, <1>8, <1>9 DEF dishes

\* The skill that a gathering goes by.
Tool(v) == IF Gathers(Lookup(v)) THEN Lookup(v) ELSE Nothing

LEMMA ToolMeant ==
  ASSUME book \in Seq(ToSet(book)), NEW v
  PROVE  /\ v = NoWord => Tool(v) = Nothing
         /\ Hands(v) # {} => Tool(v) # Nothing /\ Hands(v) = {Tool(v)[2]}
<1>1. ASSUME v = NoWord PROVE Tool(v) = Nothing
  <2>1. Lookup(v) = Nothing
    BY <1>1 DEF Lookup
  <2> QED BY <2>1 DEF Tool
<1>2. ASSUME Hands(v) # {} PROVE Tool(v) # Nothing /\ Hands(v) = {Tool(v)[2]}
  <2>1. PICK s \in ToSet(book) : s.group = "gather" /\ Means(v, s)
    BY <1>2 DEF Hands
  <2>2. Lookup(v) = <<"skill", s.id>> /\ Lookup(v) # Nothing
    BY <2>1, LooksUp
  <2>3. Tool(v) = <<"skill", s.id>>
    BY <2>1, <2>2 DEF Tool, Gathers
  <2>4. \A t \in ToSet(book) : Means(v, t) => t = s
    BY <2>1 DEF Means
  <2>5. Hands(v) = {s.id}
    BY <2>1, <2>4 DEF Hands
  <2> QED BY <2>2, <2>3, <2>5
<1> QED BY <1>1, <1>2

LEMMA NodeMeant ==
  ASSUME book \in Seq(ToSet(book)), NEW r, NEW w, NEW v,
         v = NoWord \/ Hands(v) # {}, w = NoWord \/ One(Wares(w)),
         NEW got \in PickNode(r, w, Tool(v))
  PROVE  got \in OrNothing({<<"node", n>> : n \in {n \in ToSet(Nodes) :
                              /\ n.room = r
                              /\ v = NoWord \/ n.skill \in Hands(v)
                              /\ w = NoWord \/ n.item \in Wares(w)}})
<1> DEFINE item == IF Good(w) = Nothing THEN w ELSE Good(w)[2]
           fits == {k \in DOMAIN Nodes : /\ Nodes[k].room = r
                                         /\ w = NoWord \/ Nodes[k].item = item
                                         /\ Tool(v) = Nothing \/ Nodes[k].skill = Tool(v)[2]}
           meant == {n \in ToSet(Nodes) : /\ n.room = r
                                          /\ v = NoWord \/ n.skill \in Hands(v)
                                          /\ w = NoWord \/ n.item \in Wares(w)}
<1>1. Nodes \in Seq(ToSet(Nodes))
  BY WordsAssumption
<1>2. w = NoWord \/ Wares(w) = {item}
  <2>1. ASSUME One(Wares(w)) PROVE Wares(w) = {item}
    <3>1. PICK g \in ToSet(Goods) : /\ w = g.id \/ w \in g.names
                                    /\ Good(w) = <<"good", g.id>> /\ Good(w) # Nothing
      BY <2>1, GoodFound DEF One
    <3>2. item = g.id /\ g.id \in Wares(w)
      BY <3>1 DEF Wares
    <3> HIDE DEF item
    <3> QED BY <2>1, <3>2 DEF One
  <2> QED BY <2>1
<1>3. \A s : (v = NoWord \/ s \in Hands(v)) <=> (Tool(v) = Nothing \/ s = Tool(v)[2])
  <2>1. (v = NoWord => Tool(v) = Nothing) /\ (Hands(v) # {} => Tool(v) # Nothing /\ Hands(v) = {Tool(v)[2]})
    BY ToolMeant
  <2> QED BY <2>1
<1>4. \A k \in DOMAIN Nodes : k \in fits <=> Nodes[k] \in meant
  <2> HIDE DEF item
  <2> QED BY <1>1, <1>2, <1>3, Entries
<1>5. PickNode(r, w, Tool(v)) = CASE fits = {}  -> {Nothing}
                                  [] w = NoWord -> {<<"node", Nodes[k]>> : k \in fits}
                                  [] OTHER      -> {<<"node", Nodes[Min(fits)]>>}
  BY DEF PickNode
<1>6. fits \subseteq DOMAIN Nodes
  OBVIOUS
<1>7. meant \subseteq ToSet(Nodes)
  OBVIOUS
<1>8. got \in OrNothing({<<"node", n>> : n \in meant})
  <2> HIDE DEF fits, meant
  <2>1. CASE fits = {}
    <3>1. meant = {}
      BY <1>1, <1>4, <1>7, <2>1, Entries
    <3>2. got = Nothing
      BY <1>5, <2>1
    <3> QED BY <3>1, <3>2 DEF OrNothing
  <2>2. CASE fits # {}
    <3>1. Min(fits) \in fits
      BY <1>1, <1>6, <2>2, FirstFits
    <3>2. \E k \in fits : got = <<"node", Nodes[k]>>
      BY <1>5, <2>2, <3>1
    <3>3. got \in {<<"node", n>> : n \in meant}
      BY <1>4, <1>6, <3>2
    <3> QED BY <3>3 DEF OrNothing
  <2> QED BY <2>1, <2>2
<1> QED BY <1>8

-----------------------------------------------------------------------------
(* What the client asks for is what the adapter understands. *)

SkillsDiffer == \A i, j \in DOMAIN book : book[i].id = book[j].id => i = j

Adapters == {"telnet", "ws"}

\* What WordsReach says of one command.
Right(c, r, got) ==
  /\ c.op \in {"look", "talk"} /\ c.arg # NoWord => got \in OrNothing(Meant(c.op, r, c.arg))
  /\ c.op \in {"sell", "buy"} /\ c.arg # NoWord =>
       got \in {<<"good", g>> : g \in Wares(c.arg)} \cup {Nothing}
  /\ c.op = "craft" /\ c.arg # NoWord =>
       LET dishes == {<<"recipe", q.id>> : q \in Dishes(c.arg)} IN
       /\ got \in dishes \cup {Nothing}
       /\ Wares(c.arg) = {} \/ One(Wares(c.arg)) => got \in OrNothing(dishes)
  /\ c.op = "practice" => \A s \in ToSet(book) : Means(c.arg, s) => got = <<"skill", s.id>>
  /\ /\ c.op = "gather"
     /\ c.skill = NoWord \/ Hands(c.skill) # {}
     /\ c.arg = NoWord \/ One(Wares(c.arg))
     => got \in OrNothing({<<"node", n>> : n \in {n \in ToSet(Nodes) :
                  /\ n.room = r
                  /\ c.skill = NoWord \/ n.skill \in Hands(c.skill)
                  /\ c.arg = NoWord \/ n.item \in Wares(c.arg)}})

\* Commands of which it says anything.
Claimed(c) ==
  \/ c.op \in {"look", "talk", "craft", "sell", "buy"} /\ c.arg # NoWord
  \/ c.op = "practice" /\ \E s \in ToSet(book) : Means(c.arg, s)
  \/ c.op = "gather"

Same(c, d) == d.op = c.op /\ d.arg = c.arg /\ (c.op = "gather" => d.skill = c.skill)

LEMMA FrameUnderstood ==
  ASSUME NEW t, NEW w, NEW k, Claimed(Cmd(t, w, k))
  PROVE  Same(Cmd(t, w, k), HandleFrame(t, w, k))
<1>1. /\ t \in {"look", "talk", "craft", "sell", "buy", "practice", "gather"}
      /\ t = "talk" => w # NoWord
      /\ t \in {"practice", "sell", "buy"} => w # NoWord
  BY DEF Claimed, Cmd, Means
<1>2. t \in FrameTypes
  BY <1>1 DEF FrameTypes
<1>3. Complete(t, w)
  <2>1. CASE t \in {"talk", "practice", "sell", "buy"}
    BY <1>1, <2>1 DEF Complete
  <2>2. CASE t \in {"look", "craft", "gather"}
    BY <2>2 DEF Complete
  <2> QED BY <1>1, <2>1, <2>2
<1> QED BY <1>2, <1>3 DEF HandleFrame, Same, Cmd

LEMMA CommandUnderstood ==
  ASSUME NEW v \in DOMAIN Commands, NEW w, Claimed(Cmd(Commands[v], w, NoWord))
  PROVE  Same(Cmd(Commands[v], w, NoWord), Dispatch(v, w))
<1>1. /\ Commands[v] \in {"look", "talk", "craft", "sell", "buy", "practice", "gather"}
      /\ Commands[v] = "talk" => w # NoWord
      /\ Commands[v] \in {"practice", "sell", "buy"} => w # NoWord
  BY DEF Claimed, Cmd, Means
<1>2. Complete(Commands[v], w)
  <2>1. CASE Commands[v] \in {"talk", "practice", "sell", "buy"}
    BY <1>1, <2>1 DEF Complete
  <2>2. CASE Commands[v] \in {"look", "craft", "gather"}
    BY <2>2 DEF Complete
  <2> QED BY <1>1, <2>1, <2>2
<1>3. Dispatch(v, w) = Cmd(Commands[v], w, NoWord)
  BY <1>2, WordsAssumption DEF Dispatch
<1> QED BY <1>3 DEF Same

LEMMA SkillUnderstood ==
  ASSUME book \in Seq(ToSet(book)), SkillsDiffer,
         NEW v, v \notin DOMAIN Commands, v \notin Directions, NEW w,
         NEW k \in ToSet(book), Means(v, k)
  PROVE  Dispatch(v, w) = IF k.group = "gather" THEN Cmd("gather", w, v) ELSE Cmd("practice", v, NoWord)
<1>1. Lookup(v) = <<"skill", k.id>> /\ Lookup(v) # Nothing
  BY LooksUp
<1>2. Gathers(Lookup(v)) <=> k.group = "gather"
  <2>1. \A s \in ToSet(book) : s.id = k.id => s = k
    BY Entries DEF SkillsDiffer
  <2> QED BY <1>1, <2>1 DEF Gathers
<1>3. Dispatch(v, w) = SkillCmd(v, w)
  BY DEF Dispatch
<1> QED BY <1>1, <1>2, <1>3 DEF SkillCmd

LEMMA Understood ==
  ASSUME book \in Seq(ToSet(book)), SkillsDiffer,
         NEW s, s[1] \in Adapters, NEW c \in Asked(s), Claimed(c)
  PROVE  Same(c, CommandOf(s))
<1>1. CASE s[1] = "ws"
  <2>1. c = Cmd(s[2], s[3], s[4]) /\ CommandOf(s) = HandleFrame(s[2], s[3], s[4])
    BY <1>1 DEF Asked, CommandOf
  <2> QED BY <2>1, FrameUnderstood
<1>2. CASE s[1] = "telnet" /\ s[2] \in DOMAIN Commands
  <2>1. c = Cmd(Commands[s[2]], s[3], NoWord) /\ CommandOf(s) = Dispatch(s[2], s[3])
    BY <1>2 DEF Asked, CommandOf
  <2> QED BY <1>2, <2>1, CommandUnderstood
<1>3. CASE s[1] = "telnet" /\ s[2] \notin DOMAIN Commands
  <2>1. PICK k \in ToSet(book) :
          /\ s[2] \notin Directions /\ Means(s[2], k)
          /\ c = IF k.group = "gather" THEN Cmd("gather", s[3], s[2]) ELSE Cmd("practice", s[2], NoWord)
    BY <1>3 DEF Asked
  <2>2. CommandOf(s) = Dispatch(s[2], s[3])
    BY <1>3 DEF CommandOf
  <2>3. CommandOf(s) = c
    BY <1>3, <2>1, <2>2, SkillUnderstood
  <2> QED BY <2>3 DEF Same
<1> QED BY <1>1, <1>2, <1>3 DEF Adapters

\* Whatever the loop reaches is what was asked for, in the room where it looks.
LEMMA ReachedRight ==
  ASSUME book \in Seq(ToSet(book)), cast.people \in Seq(ToSet(cast.people)),
         cast.things \in Seq(ToSet(cast.things)), SkillsDiffer,
         NEW s, s[1] \in Adapters, NEW got \in Reached(CommandOf(s)), NEW c \in Asked(s)
  PROVE  Right(c, room, got)
<1> DEFINE d == CommandOf(s)
<1>1. Claimed(c) => Same(c, d)
  BY Understood
<1>2. got \in Reached(d)
  OBVIOUS
<1> HIDE DEF d
<1>3. ASSUME c.op \in {"look", "talk"}, c.arg # NoWord
      PROVE  got \in OrNothing(Meant(c.op, room, c.arg))
  <2>1. d.op = c.op /\ d.arg = c.arg
    BY <1>1, <1>3 DEF Claimed, Same
  <2>2. CASE c.op = "look"
    <3>1. got = Examine(room, c.arg)
      BY <1>2, <1>3, <2>1, <2>2 DEF Reached
    <3> QED BY <2>2, <3>1, MeantReached
  <2>3. CASE c.op = "talk"
    <3>1. got = PersonHere(room, c.arg)
      BY <1>2, <1>3, <2>1, <2>3 DEF Reached
    <3> QED BY <2>3, <3>1, MeantReached
  <2> QED BY <1>3, <2>2, <2>3
<1>4. ASSUME c.op = "craft", c.arg # NoWord
      PROVE  got = FindRecipe(c.arg)
  <2>1. d.op = c.op /\ d.arg = c.arg
    BY <1>1, <1>4 DEF Claimed, Same
  <2> QED BY <1>2, <1>4, <2>1 DEF Reached
<1>5. ASSUME c.op = "practice", NEW k \in ToSet(book), Means(c.arg, k)
      PROVE  got = <<"skill", k.id>>
  <2>1. d.op = c.op /\ d.arg = c.arg
    BY <1>1, <1>5 DEF Claimed, Same
  <2>2. got = Lookup(c.arg)
    BY <1>2, <1>5, <2>1 DEF Reached
  <2> QED BY <1>5, <2>2, LooksUp
<1>6. ASSUME c.op = "gather"
      PROVE  got \in PickNode(room, c.arg, Tool(c.skill))
  <2>1. d.op = c.op /\ d.arg = c.arg /\ d.skill = c.skill
    BY <1>1, <1>6 DEF Claimed, Same
  <2> QED BY <1>2, <1>6, <2>1 DEF Reached, Tool
<1>7. c.op = "craft" /\ c.arg # NoWord =>
        LET dishes == {<<"recipe", q.id>> : q \in Dishes(c.arg)} IN
        /\ got \in dishes \cup {Nothing}
        /\ Wares(c.arg) = {} \/ One(Wares(c.arg)) => got \in OrNothing(dishes)
  BY <1>4, DishMeant
<1>8. /\ c.op = "gather"
      /\ c.skill = NoWord \/ Hands(c.skill) # {}
      /\ c.arg = NoWord \/ One(Wares(c.arg))
      => got \in OrNothing({<<"node", n>> : n \in {n \in ToSet(Nodes) :
                   /\ n.room = room
                   /\ c.skill = NoWord \/ n.skill \in Hands(c.skill)
                   /\ c.arg = NoWord \/ n.item \in Wares(c.arg)}})
  BY <1>6, NodeMeant
<1>9. ASSUME c.op \in {"sell", "buy"}, c.arg # NoWord
      PROVE  got \in {<<"good", g>> : g \in Wares(c.arg)} \cup {Nothing}
  <2>1. d.op = c.op /\ d.arg = c.arg
    BY <1>1, <1>9 DEF Claimed, Same
  <2>2. got \in Traded(c.op, c.arg)
    BY <1>2, <1>9, <2>1 DEF Reached
  <2> QED BY <2>2, TradeMeant
<1> QED BY <1>3, <1>5, <1>7, <1>8, <1>9 DEF Right

-----------------------------------------------------------------------------
(* The queue, and the rooms its moves lead to. *)

\* The content is one of those a process may be started on, and what the loader took.
Started ==
  /\ \E c \in Contents : table = c.table /\ book = c.book /\ cast = c.cast /\ sayable = c.said
  /\ phase \in {"away", "in"} => SkillsDiffer

After(e) == IF e.cmd.op = "go" THEN Dest(e.plan, e.cmd.arg) ELSE e.plan

\* What waits is what was said, as the adapter understood it.
Waiting ==
  {e \in [cmd : {CommandOf(s) : s \in sayable}, said : sayable, plan : Rooms] :
     e.cmd = CommandOf(e.said) /\ e.said[1] \in Adapters}

\* Each command finds the player in the room planned for it when it was said: the
\* first in the room of now, each next where the one before leads, and what is said
\* next where the last leads.
Planned(k) == IF k \in 1..Len(queue) THEN queue[k].plan ELSE plan

Route ==
  /\ queue \in Seq(Waiting) /\ room \in Rooms /\ plan \in Rooms
  /\ Planned(1) = room
  /\ \A k \in 1..Len(queue) : Planned(k + 1) = After(queue[k])

AtThePrompt ==
  /\ phase \in {"boot", "refused", "away"} => queue = <<>>
  /\ phase \in {"boot", "refused", "away", "in"}
  /\ phase = "in" => adapter \in Adapters

WInv == Started /\ AtThePrompt /\ Route /\ WordsReach

LEMMA ContentLists ==
  ASSUME Started
  PROVE  /\ book \in Seq(ToSet(book)) /\ cast.people \in Seq(ToSet(cast.people))
         /\ cast.things \in Seq(ToSet(cast.things))
<1>1. PICK c \in Contents : book = c.book /\ cast = c.cast
  BY DEF Started
<1>2. \A list \in {c.book, c.cast.people, c.cast.things} : list \in Seq(ToSet(list))
  BY WordsAssumption
<1> QED BY <1>1, <1>2

LEMMA Leads ==
  ASSUME NEW r \in Rooms, NEW dir
  PROVE  Dest(r, dir) \in Rooms
BY DEF Dest, Rooms

LEMMA RightReach ==
  ASSUME UNCHANGED content, \A c \in Asked(last'.said) : Right(c, last'.plan, last'.got)
  PROVE  WordsReach'
<1>1. book' = book /\ cast' = cast
  BY DEF content
<1>2. \A v, s : Means(v, s)' <=> Means(v, s)
  BY <1>1 DEF Means
<1>3. \A op, r, w : Meant(op, r, w)' = Meant(op, r, w)
  BY <1>1 DEF Meant, People, Things
<1>4. \A s : Asked(s)' = Asked(s)
  BY <1>1, <1>2 DEF Asked
<1>5. \A v : Hands(v)' = Hands(v)
  BY <1>1, <1>2 DEF Hands
<1> QED BY <1>1, <1>2, <1>3, <1>4, <1>5 DEF WordsReach, Right

\* What was reached stays right as long as the content does.
LEMMA StaysRight ==
  ASSUME WordsReach, UNCHANGED <<content, last>>
  PROVE  WordsReach'
<1>1. last' = last /\ UNCHANGED content
  OBVIOUS
<1>2. \A c \in Asked(last.said) : Right(c, last.plan, last.got)
  BY DEF WordsReach, Right
<1> QED BY <1>1, <1>2, RightReach

LEMMA SameWaiting ==
  ASSUME UNCHANGED content
  PROVE  Waiting' = Waiting
<1>1. book' = book /\ sayable' = sayable
  BY DEF content
<1>2. \A v : Lookup(v)' = Lookup(v)
  BY <1>1 DEF Lookup
<1>3. \A got : Gathers(got)' <=> Gathers(got)
  BY <1>1 DEF Gathers
<1>4. \A v, w : SkillCmd(v, w)' = SkillCmd(v, w)
  BY <1>2, <1>3 DEF SkillCmd
<1>5. \A v, w : Dispatch(v, w)' = Dispatch(v, w)
  BY <1>4 DEF Dispatch
<1>6. \A s : CommandOf(s)' = CommandOf(s)
  BY <1>5 DEF CommandOf
<1> QED BY <1>1, <1>6 DEF Waiting

\* A step that leaves the queue and the rooms alone.
LEMMA RouteStays ==
  ASSUME Route, UNCHANGED <<content, queue, room, plan>>
  PROVE  Route'
<1>1. Waiting' = Waiting
  BY SameWaiting
<1>2. \A k : Planned(k)' = Planned(k)
  BY DEF Planned
<1> QED BY <1>1, <1>2 DEF Route, After

\* Nobody's queue is a route from anywhere.
LEMMA EmptyRoute ==
  ASSUME queue = <<>>, room = plan, room \in Rooms
  PROVE  Route
<1>1. Len(queue) = 0 /\ queue \in Seq(Waiting)
  OBVIOUS
<1>2. 1..Len(queue) = {}
  BY <1>1
<1> QED BY <1>1, <1>2 DEF Route, Planned

LEMMA WordsBegin == WordsInit => WInv
<1> SUFFICES ASSUME WordsInit PROVE WInv
  OBVIOUS
<1>1. Started /\ AtThePrompt
  BY DEF WordsInit, Init, Started, AtThePrompt
<1>2. Route
  BY EmptyRoute DEF WordsInit, Rooms
<1>3. WordsReach
  <2>1. last.said = Line(NoWord, NoWord)
    BY DEF WordsInit
  <2>2. Asked(last.said) = {}
    <3>1. last.said[1] = "telnet" /\ last.said[2] = NoWord /\ NoWord \notin DOMAIN Commands
      BY <2>1, WordsAssumption DEF Line
    <3> QED BY <3>1 DEF Asked, Means
  <2> QED BY <2>2 DEF WordsReach
<1> QED BY <1>1, <1>2, <1>3 DEF WInv

LEMMA SayStep ==
  ASSUME WInv, NEW s \in sayable, Say(s)
  PROVE  WInv'
<1> DEFINE c == CommandOf(s)
           e == [cmd |-> c, said |-> s, plan |-> plan]
<1>1. /\ phase = "in" /\ s[1] = adapter /\ UNCHANGED vars /\ UNCHANGED content
      /\ adapter' = adapter /\ room' = room
  BY DEF Say
<1>2. phase' = phase /\ table' = table /\ book' = book /\ cast' = cast /\ sayable' = sayable
  BY <1>1 DEF vars, content
<1>3. s[1] \in Adapters /\ book \in Seq(ToSet(book)) /\ SkillsDiffer
  BY <1>1, ContentLists DEF WInv, AtThePrompt, Started
<1>4. Started' /\ AtThePrompt'
  BY <1>1, <1>2 DEF WInv, Started, AtThePrompt, SkillsDiffer
<1>5. CASE c = NoCmd
  <2>1. last' = [said |-> s, plan |-> plan, got |-> Nothing] /\ queue' = queue /\ plan' = plan
    BY <1>5 DEF Say
  <2>2. Route'
    BY <1>1, <2>1, RouteStays DEF WInv
  <2>3. ASSUME NEW d \in Asked(s) PROVE Right(d, plan, Nothing)
    <3>1. ~Claimed(d)
      <4>1. SUFFICES ASSUME Claimed(d) PROVE FALSE
        OBVIOUS
      <4>2. Same(d, NoCmd)
        BY <1>3, <1>5, <4>1, Understood
      <4> QED BY <4>1, <4>2 DEF Same, NoCmd, Cmd, Claimed
    <3> QED BY <3>1 DEF Claimed, Right
  <2>4. WordsReach'
    BY <1>1, <2>1, <2>3, RightReach
  <2> QED BY <1>4, <2>2, <2>4 DEF WInv
<1>6. CASE c # NoCmd
  <2>1. queue' = Append(queue, e) /\ last' = last /\ plan' = After(e)
    <3>1. plan' = IF c.op = "go" THEN Dest(plan, c.arg) ELSE plan
      BY <1>6 DEF Say
    <3>2. e.cmd = c /\ e.plan = plan
      OBVIOUS
    <3>3. queue' = Append(queue, e) /\ last' = last
      BY <1>6 DEF Say
    <3> HIDE DEF c, e
    <3> QED BY <3>1, <3>2, <3>3 DEF After
  <2>2. /\ queue \in Seq(Waiting) /\ room \in Rooms /\ plan \in Rooms /\ Planned(1) = room
        /\ \A k \in 1..Len(queue) : Planned(k + 1) = After(queue[k])
    BY DEF WInv, Route
  <2>3. e \in Waiting
    BY <1>3, <2>2 DEF Waiting
  <2>4. e.plan = plan /\ plan' \in Rooms
    BY <2>1, <2>2, Leads DEF After
  <2> HIDE DEF e
  <2>5. /\ queue' \in Seq(Waiting) /\ Len(queue) \in Nat /\ Len(queue') = Len(queue) + 1
        /\ queue'[Len(queue) + 1] = e /\ \A k \in 1..Len(queue) : queue'[k] = queue[k]
    BY <2>1, <2>2, <2>3
  <2>6. /\ \A k \in 1..(Len(queue) + 1) : Planned(k)' = Planned(k)
        /\ \A k \in Nat : k = Len(queue) + 2 => Planned(k)' = plan'
    BY <2>4, <2>5 DEF Planned
  <2>7. \A k \in 1..Len(queue') : Planned(k + 1)' = After(queue'[k])
    <3> SUFFICES ASSUME NEW k \in 1..(Len(queue) + 1) PROVE Planned(k + 1)' = After(queue'[k])
      BY <2>5
    <3>1. CASE k = Len(queue) + 1
      <4>1. k + 1 = Len(queue) + 2 /\ k + 1 \in Nat /\ queue'[k] = e
        BY <2>5, <3>1
      <4> QED BY <2>1, <2>6, <4>1
    <3>2. CASE k # Len(queue) + 1
      <4>1. k \in 1..Len(queue) /\ k + 1 \in 1..(Len(queue) + 1)
        BY <2>5, <3>2
      <4> QED BY <2>2, <2>5, <2>6, <4>1
    <3> QED BY <3>1, <3>2
  <2>8. Route'
    <3>1. Waiting' = Waiting
      BY <1>1, SameWaiting
    <3>2. Planned(1)' = room'
      BY <1>1, <2>2, <2>5, <2>6
    <3> QED BY <1>1, <2>2, <2>4, <2>5, <2>7, <3>1, <3>2 DEF Route, After
  <2>9. WordsReach'
    BY <1>1, <2>1, StaysRight DEF WInv
  <2> QED BY <1>4, <2>8, <2>9 DEF WInv
<1> QED BY <1>5, <1>6

\* A trial leaves all but the player's sheet and what was heard.
LEMMA Trains ==
  ASSUME NEW got, Train(got)
  PROVE  phase' = phase /\ table' = table
<1>1. CASE Trained(got) = {}
  BY <1>1 DEF Train, vars
<1>2. CASE Trained(got) # {}
  BY <1>2 DEF Train, Practice
<1> QED BY <1>1, <1>2

LEMMA HandleStep ==
  ASSUME WInv, Handle
  PROVE  WInv'
<1> DEFINE h == Head(queue)
<1>1. /\ phase = "in" /\ queue # <<>> /\ queue' = Tail(queue)
      /\ UNCHANGED content /\ adapter' = adapter /\ plan' = plan
      /\ room' = IF h.cmd.op = "go" THEN Dest(room, h.cmd.arg) ELSE room
  BY DEF Handle
<1>2. PICK got \in Reached(h.cmd) :
        last' = [said |-> h.said, plan |-> h.plan, got |-> got] /\ Train(got)
  BY DEF Handle
<1>3. phase' = phase /\ table' = table /\ book' = book /\ cast' = cast /\ sayable' = sayable
  BY <1>1, <1>2, Trains DEF content
<1>4. Started' /\ AtThePrompt'
  BY <1>1, <1>3 DEF WInv, Started, AtThePrompt, SkillsDiffer
<1>5. /\ queue \in Seq(Waiting) /\ room \in Rooms /\ plan \in Rooms /\ Planned(1) = room
      /\ \A k \in 1..Len(queue) : Planned(k + 1) = After(queue[k])
  BY DEF WInv, Route
<1>6. /\ Len(queue) \in Nat /\ Len(queue) >= 1 /\ h = queue[1] /\ h \in Waiting
      /\ queue' \in Seq(Waiting) /\ Len(queue') = Len(queue) - 1
      /\ \A k \in 1..(Len(queue) - 1) : queue'[k] = queue[k + 1]
  BY <1>1, <1>5
<1>7. h.plan = room /\ h.cmd = CommandOf(h.said) /\ h.said[1] \in Adapters
  BY <1>5, <1>6 DEF Planned, Waiting
<1> HIDE DEF h
<1>8. room' = After(h) /\ room' \in Rooms
  BY <1>1, <1>5, <1>7, Leads DEF After
<1>9. Route'
  <2>1. \A k \in 1..Len(queue) : Planned(k)' = Planned(k + 1)
    <3> SUFFICES ASSUME NEW k \in 1..Len(queue) PROVE Planned(k)' = Planned(k + 1)
      OBVIOUS
    <3>1. CASE k = Len(queue)
      <4>1. k \notin 1..Len(queue') /\ k + 1 \notin 1..Len(queue)
        BY <1>6, <3>1
      <4> QED BY <1>1, <4>1 DEF Planned
    <3>2. CASE k # Len(queue)
      <4>1. k \in 1..Len(queue') /\ k + 1 \in 1..Len(queue) /\ queue'[k] = queue[k + 1]
        BY <1>6, <3>2
      <4> QED BY <4>1 DEF Planned
    <3> QED BY <3>1, <3>2
  <2>2. Planned(1)' = room'
    BY <1>5, <1>6, <1>8, <2>1
  <2>3. \A k \in 1..Len(queue') : Planned(k + 1)' = After(queue'[k])
    <3> SUFFICES ASSUME NEW k \in 1..(Len(queue) - 1) PROVE Planned(k + 1)' = After(queue'[k])
      BY <1>6
    <3>1. k + 1 \in 1..Len(queue)
      BY <1>6
    <3>2. Planned(k + 1)' = Planned((k + 1) + 1) /\ Planned((k + 1) + 1) = After(queue[k + 1])
      BY <1>5, <2>1, <3>1
    <3> QED BY <1>6, <3>2
  <2>4. Waiting' = Waiting
    BY <1>1, SameWaiting
  <2> QED BY <1>1, <1>5, <1>6, <1>8, <2>2, <2>3, <2>4 DEF Route, After
<1>10. \A c \in Asked(h.said) : Right(c, room, got)
  <2>1. SkillsDiffer
    BY <1>1 DEF WInv, Started
  <2> QED BY <1>2, <1>7, <2>1, ContentLists, ReachedRight DEF WInv
<1>11. WordsReach'
  BY <1>1, <1>2, <1>7, <1>10, RightReach
<1> QED BY <1>4, <1>9, <1>11 DEF WInv

LEMMA WordsStep == WInv /\ [WordsNext]_wordsVars => WInv'
<1> SUFFICES ASSUME WInv, [WordsNext]_wordsVars PROVE WInv'
  OBVIOUS
<1>1. CASE BootOn
  <2>1. /\ UNCHANGED content /\ queue' = queue /\ plan' = plan /\ room' = room /\ adapter' = adapter
        /\ last' = last /\ phase = "boot" /\ table' = table
    BY <1>1 DEF BootOn, promptVars, Boot
  <2>2. phase' \in {"away", "refused"} /\ (phase' = "away" => SkillsDiffer)
    <3>1. SkillsLoad => SkillsDiffer
      BY DEF SkillsLoad, SkillsDiffer, Distinct
    <3> QED BY <1>1, <3>1 DEF BootOn, Boot
  <2>3. Started' /\ AtThePrompt'
    BY <2>1, <2>2 DEF WInv, Started, AtThePrompt, SkillsDiffer, content
  <2> QED BY <2>1, <2>3, RouteStays, StaysRight DEF WInv
<1>2. CASE ComeIn
  <2>1. /\ UNCHANGED content /\ queue' = queue /\ plan' = Start /\ room' = Start /\ adapter' \in Adapters
        /\ last' = last /\ phase = "away" /\ phase' = "in" /\ table' = table
    BY <1>2 DEF ComeIn, Enter, Adapters
  <2>2. Started' /\ AtThePrompt' /\ queue' = <<>>
    BY <2>1 DEF WInv, Started, AtThePrompt, SkillsDiffer, content
  <2>3. Route'
    <3>1. (queue = <<>> /\ room = plan /\ room \in Rooms)'
      BY <2>1, <2>2 DEF Rooms
    <3>2. (queue = <<>> /\ room = plan /\ room \in Rooms => Route)'
      BY EmptyRoute, PTL
    <3> QED BY <3>1, <3>2
  <2> QED BY <2>1, <2>2, <2>3, StaysRight DEF WInv
<1>3. CASE GoOut
  <2>1. /\ UNCHANGED content /\ queue' = queue /\ plan' = plan /\ room' = room /\ adapter' = adapter
        /\ last' = last /\ queue = <<>> /\ phase = "in" /\ phase' = "away" /\ table' = table
    BY <1>3 DEF GoOut, promptVars, Leave
  <2>2. Started' /\ AtThePrompt'
    BY <2>1 DEF WInv, Started, AtThePrompt, SkillsDiffer, content
  <2> QED BY <2>1, <2>2, RouteStays, StaysRight DEF WInv
<1>4. CASE Handle
  BY <1>4, HandleStep
<1>5. CASE (Refused /\ UNCHANGED <<content, promptVars>>) \/ UNCHANGED wordsVars
  <2>1. /\ UNCHANGED content /\ queue' = queue /\ plan' = plan /\ room' = room /\ adapter' = adapter
        /\ last' = last /\ phase' = phase /\ table' = table
    BY <1>5 DEF Refused, promptVars, wordsVars, vars
  <2>2. Started' /\ AtThePrompt'
    BY <2>1 DEF WInv, Started, AtThePrompt, SkillsDiffer, content
  <2> QED BY <2>1, <2>2, RouteStays, StaysRight DEF WInv
<1>6. CASE \E s \in sayable : Say(s)
  BY <1>6, SayStep
<1> QED BY <1>1, <1>2, <1>3, <1>4, <1>5, <1>6 DEF WordsNext

\* Whatever waits before it, moves included, a command reaches what its words name
\* in the room the player was bound for when it was said: dispatch and handleFrame
\* settle the command, FindInRoom, Lookup, pickNode and findRecipe the rest, later.
THEOREM ReachesWhatItNames == WordsSpec => []WordsReach
<1>1. WInv => WordsReach
  BY DEF WInv
<1> QED BY <1>1, WordsBegin, WordsStep, PTL DEF WordsSpec

-----------------------------------------------------------------------------
(* The player who types is the player of Titles, though a boot may be refused for *)
(* its skills or its cast.                                                        *)

LEMMA TitlesStep == WInv /\ IInv /\ [WordsNext]_wordsVars => IInv'
<1> SUFFICES ASSUME WInv, IInv, [WordsNext]_wordsVars PROVE IInv'
  OBVIOUS
<1>1. CASE BootOn
  <2>1. CASE Boot
    BY <2>1, Step DEF Next
  <2>2. CASE phase' = "refused" /\ UNCHANGED <<table, ranks, stats, asWhom, heard>>
    <3>1. TypeOK'
      BY <2>2 DEF IInv, TypeOK
    <3>2. Behind' /\ HeardOnce' /\ KnownAs'
      BY <2>2 DEF IInv, Behind, HeardOnce, KnownAs, Naming, Matches
    <3> QED BY <2>2, <3>1, <3>2 DEF IInv
  <2> QED BY <1>1, <2>1, <2>2 DEF BootOn
<1>2. CASE ComeIn \/ GoOut
  BY <1>2, Step DEF ComeIn, GoOut, Next
<1>3. CASE (Refused /\ UNCHANGED <<content, promptVars>>) \/ UNCHANGED wordsVars
  BY <1>3, Step DEF Refused, wordsVars
<1>4. CASE Handle
  <2>1. PICK got : Train(got)
    BY <1>4 DEF Handle
  <2>2. CASE Trained(got) = {}
    BY <2>1, <2>2, Step DEF Train
  <2>3. CASE Trained(got) # {}
    <3>1. Trained(got) \subseteq Skills
      <4>1. PICK c \in Contents : book = c.book
        BY DEF WInv, Started
      <4>2. {s.id : s \in ToSet(book)} \subseteq Skills
        BY <4>1, WordsAssumption
      <4> QED BY <4>2 DEF Trained
    <3>2. \E sk \in Skills : Practice(sk)
      BY <2>1, <2>3, <3>1 DEF Train
    <3> QED BY <3>2, Step DEF Next
  <2> QED BY <2>2, <2>3
<1>5. CASE \E s \in sayable : Say(s)
  <2>1. UNCHANGED vars
    BY <1>5 DEF Say
  <2> QED BY <2>1, Step
<1> QED BY <1>1, <1>2, <1>3, <1>4, <1>5 DEF WordsNext

\* Whoever plays by typing goes by the title last told, and hears of none twice.
\* (handle, practice, applyGain)
THEOREM TitledAtThePrompt == WordsSpec => [](HeardOnce /\ KnownAs)
<1>1. WordsInit => WInv /\ IInv
  BY WordsBegin, Begin DEF WordsInit
<1>2. WInv /\ IInv /\ [WordsNext]_wordsVars => (WInv /\ IInv)'
  BY WordsStep, TitlesStep
<1>3. IInv => HeardOnce /\ KnownAs
  BY DEF IInv
<1> QED BY <1>1, <1>2, <1>3, PTL DEF WordsSpec
=============================================================================
