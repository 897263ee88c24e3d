---------------------------- MODULE AdminProofs -----------------------------
(***************************************************************************)
(* What the admin console writes: configuration rows (ConfigRows),         *)
(* accounts (UserAdmin) and evaluation runs (EvalRuns), for any number of  *)
(* requests at a time; and what it shows of the jobs (JobEvents).          *)
(***************************************************************************)
EXTENDS ConfigRows, UserAdmin, EvalRuns, JobEvents, SequenceTheorems, FiniteSetTheorems, TLAPS

(***************************************************************************)
(* Promotions implement ActiveConfig, for any number of them at a time.    *)
(*                                                                         *)
(* A transaction writes only when it commits, and what it wrote down when  *)
(* its statements ran must still be so then.  The invariant is about that: *)
(* the row a transaction holds stays the active one until it commits, no   *)
(* two transactions hold the same row, and at most one is past its INSERT. *)
(***************************************************************************)
OneActive == \A i, j \in Active : i = j

Held ==
  /\ \A p \in Promoters : promo[p].holds # 0 =>
       promo[p].holds \in Active /\ promo[p].at \in {"insert", "commit"}
  /\ \A p, q \in Promoters : p # q /\ promo[p].holds # 0 => promo[p].holds # promo[q].holds

OneWriter ==
  /\ \A p, q \in Promoters : promo[p].at = "commit" /\ promo[q].at = "commit" => p = q
  /\ \A p \in Promoters : promo[p].at = "commit" => Active \subseteq {promo[p].holds}

Turns == [at : {"idle", "version", "update", "lock", "insert", "commit", "over"},
          version : Nat, sees : Nat, holds : Nat]

\* MAX(version) is there: of the rows some have the highest
HasHighest == config # <<>> =>
  \E i \in DOMAIN config : \A j \in DOMAIN config : config[j].version <= config[i].version

PromoOK == config \in Seq(Rows) /\ promo \in [Promoters -> Turns] /\ HasHighest

ConfigInv == PromoOK /\ OneActive /\ Held /\ OneWriter

-----------------------------------------------------------------------------
\* The rows after a commit: those before it without the one that was held, and a
\* new one at the end.
LEMMA AfterCommit ==
  ASSUME config \in Seq(Rows), HasHighest, NEW row \in Nat, NEW v \in Nat,
         config' = Append(Deactivated(row), [version |-> v, active |-> TRUE])
  PROVE  /\ config' \in Seq(Rows) /\ HasHighest'
         /\ Active' = (Active \ {row}) \cup {Len(config) + 1}
         /\ Len(config) \in Nat
         /\ Active \subseteq 1..Len(config)
<1> DEFINE d == Deactivated(row)
           new == [version |-> v, active |-> TRUE]
<1>1. /\ Len(config) \in Nat /\ DOMAIN config = 1..Len(config)
      /\ \A i \in 1..Len(config) : config[i] \in Rows
  BY LenProperties, ElementOfSeq
<1>2. d \in [1..Len(config) -> Rows]
  BY <1>1 DEF Deactivated, Rows
<1>3. d \in Seq(Rows) /\ Len(d) = Len(config)
  BY <1>1, <1>2
<1>4. new \in Rows
  BY DEF Rows
<1>5. /\ config' \in Seq(Rows) /\ Len(config') = Len(config) + 1
      /\ DOMAIN config' = 1..(Len(config) + 1)
      /\ \A i \in 1..Len(config) : config'[i] = d[i]
      /\ config'[Len(config) + 1] = new
  <2> HIDE DEF d, new
  <2> QED BY <1>1, <1>3, <1>4, AppendProperties DEF d, new
<1>6. \A i \in 1..Len(config) : config'[i].active <=> config[i].active /\ i # row
  <2> SUFFICES ASSUME NEW i \in 1..Len(config)
               PROVE  config'[i].active <=> config[i].active /\ i # row
    OBVIOUS
  <2>1. config'[i] = IF i = row THEN [config[i] EXCEPT !.active = FALSE] ELSE config[i]
    BY <1>1, <1>5 DEF Deactivated
  <2>2. config[i] \in Rows
    BY <1>1
  <2> QED BY <2>1, <2>2 DEF Rows
<1>7. config'[Len(config) + 1].active
  BY <1>5
<1>8. Active' = (Active \ {row}) \cup {Len(config) + 1}
  <2> DEFINE n == Len(config)
  <2>1. Active' = {i \in 1..(n + 1) : config'[i].active}
    BY <1>5 DEF Active
  <2>2. Active = {i \in 1..n : config[i].active}
    BY <1>1 DEF Active
  <2>3. 1..(n + 1) = (1..n) \cup {n + 1} /\ n + 1 \notin 1..n
    BY <1>1
  <2>4. {i \in 1..n : config'[i].active} = Active \ {row}
    <3> HIDE DEF n
    <3> QED BY <1>6, <2>2 DEF n
  <2>5. {i \in {n + 1} : config'[i].active} = {n + 1}
    BY <1>7
  <2>6. {i \in 1..(n + 1) : config'[i].active}
          = {i \in 1..n : config'[i].active} \cup {i \in {n + 1} : config'[i].active}
    <3> HIDE DEF n
    <3> QED BY <2>3
  <2> HIDE DEF n
  <2> QED BY <2>1, <2>4, <2>5, <2>6 DEF n
<1>9. HasHighest'
  <2> DEFINE n == Len(config)
  <2>1. /\ \A i \in 1..n : config'[i].version = config[i].version /\ config[i].version \in Nat
        /\ config'[n + 1].version = v
    <3>1. ASSUME NEW i \in 1..n
          PROVE  config'[i].version = config[i].version /\ config[i].version \in Nat
      <4>1. config'[i] = IF i = row THEN [config[i] EXCEPT !.active = FALSE] ELSE config[i]
        BY <1>1, <1>5, <3>1 DEF Deactivated
      <4>2. config[i] \in Rows
        BY <1>1, <3>1
      <4> QED BY <4>1, <4>2 DEF Rows
    <3> QED BY <1>5, <3>1
  <2>2. n \in Nat /\ DOMAIN config = 1..n /\ DOMAIN config' = 1..(n + 1)
    BY <1>1, <1>5
  <2> HIDE DEF n
  <2>3. CASE config = <<>> \/ \A j \in 1..n : config[j].version <= v
    <3>1. \A j \in 1..n : config[j].version <= v
      BY <2>2, <2>3
    <3>2. n + 1 \in 1..(n + 1) /\ \A j \in 1..(n + 1) : j \in 1..n \/ j = n + 1
      BY <2>2
    <3>3. \A j \in 1..(n + 1) : config'[j].version <= config'[n + 1].version
      <4>1. ASSUME NEW j \in 1..(n + 1), j # n + 1
            PROVE  config'[j].version <= v
        BY <2>1, <3>1, <3>2, <4>1
      <4>2. v <= v
        OBVIOUS
      <4>3. config'[n + 1].version = v
        BY <2>1, Zenon
      <4> QED BY <4>1, <4>2, <4>3, Zenon
    <3> QED BY <2>2, <3>2, <3>3 DEF HasHighest
  <2>4. CASE config # <<>> /\ ~\A j \in 1..n : config[j].version <= v
    <3>1. PICK i \in 1..n : \A j \in 1..n : config[j].version <= config[i].version
      BY <2>2, <2>4 DEF HasHighest
    <3>2. v <= config[i].version
      BY <2>1, <2>4, <3>1
    <3>3. i \in 1..(n + 1) /\ \A j \in 1..(n + 1) : j \in 1..n \/ j = n + 1
      BY <2>2
    <3>4. \A j \in 1..(n + 1) : config'[j].version <= config'[i].version
      BY <2>1, <3>1, <3>2, <3>3
    <3> QED BY <2>2, <3>3, <3>4 DEF HasHighest
  <2> QED BY <2>3, <2>4
<1> QED BY <1>1, <1>5, <1>8, <1>9 DEF Active

\* one more than the highest version is a version
LEMMA MaxVersionIs ==
  ASSUME config \in Seq(Rows), HasHighest
  PROVE  MaxVersion \in Nat
<1>1. CASE config = <<>>
  BY <1>1 DEF MaxVersion
<1>2. CASE config # <<>>
  <2> DEFINE S == {config[i].version : i \in DOMAIN config}
             P(v) == \A i \in DOMAIN config : config[i].version <= v
  <2>1. \A i \in DOMAIN config : config[i].version \in Nat
    <3>1. \A i \in DOMAIN config : config[i] \in Rows
      BY ElementOfSeq, LenProperties
    <3> QED BY <3>1 DEF Rows
  <2>2. \E v \in S : P(v)
    BY <1>2 DEF HasHighest
  <2>3. (CHOOSE v \in S : P(v)) \in S
    <3> HIDE DEF S, P
    <3> QED BY <2>2
  <2> QED BY <1>2, <2>1, <2>3 DEF MaxVersion
<1> QED BY <1>1, <1>2

-----------------------------------------------------------------------------
LEMMA ConfigInitInv == ConfigInit => ConfigInv
<1> SUFFICES ASSUME ConfigInit PROVE ConfigInv
  OBVIOUS
<1>1. config = <<>> /\ config \in Seq(Rows) /\ Active = {}
  BY EmptySeq DEF ConfigInit, Active
<1>2. \A p \in Promoters : promo[p].holds = 0 /\ promo[p].at = "idle"
  BY DEF ConfigInit
<1>3. promo \in [Promoters -> Turns]
  BY DEF ConfigInit, Turns
<1> QED BY <1>1, <1>2, <1>3 DEF ConfigInv, PromoOK, HasHighest, OneActive, Held, OneWriter

\* A step of one promotion that does not touch the rows
LEMMA TurnInv ==
  ASSUME ConfigInv, NEW p \in Promoters, UNCHANGED config, NEW r \in Turns,
         promo' = [promo EXCEPT ![p] = r],
         r.holds # 0 => /\ r.holds \in Active /\ r.at \in {"insert", "commit"}
                        /\ \A q \in Promoters \ {p} : promo[q].holds # r.holds,
         r.at = "commit" => /\ Active \subseteq {r.holds}
                            /\ \A q \in Promoters \ {p} : promo[q].at # "commit"
  PROVE  ConfigInv'
<1>1. config \in Seq(Rows) /\ promo \in [Promoters -> Turns] /\ HasHighest
  BY DEF ConfigInv, PromoOK
<1>2. \A q \in Promoters : promo'[q] = IF q = p THEN r ELSE promo[q]
  BY <1>1
<1>3. Active' = Active
  BY DEF Active
<1>4. PromoOK'
  BY <1>1 DEF PromoOK, HasHighest
<1>5. OneActive'
  BY <1>3 DEF ConfigInv, OneActive
<1>6. Held'
  BY <1>2, <1>3 DEF ConfigInv, Held
<1>7. OneWriter'
  BY <1>2, <1>3 DEF ConfigInv, OneWriter
<1> QED BY <1>4, <1>5, <1>6, <1>7 DEF ConfigInv

-----------------------------------------------------------------------------
\* The steps of one promotion up to its commit
LEMMA TurnOfPromotion ==
  ASSUME ConfigInv, NEW p \in Promoters, PromoteStep(p), ~CommitPromotion(p)
  PROVE  ConfigInv' /\ Active' = Active
<1>1. config \in Seq(Rows) /\ promo[p] \in Turns /\ HasHighest
  BY DEF ConfigInv, PromoOK
<1> DEFINE t == promo[p]
<1>2. t \in Turns /\ t.sees \in Nat /\ t.holds \in Nat
  BY <1>1 DEF Turns
<1>3. t.at \notin {"insert", "commit"} => t.holds = 0
  BY DEF ConfigInv, Held
<1>4. UNCHANGED config => Active' = Active
  BY DEF Active
<1>5. CASE ResolvePromoteConfig(p)
  <2>1. PICK at \in {"version", "over"} : promo' = [promo EXCEPT ![p] = [t EXCEPT !.at = at]]
    BY <1>5 DEF ResolvePromoteConfig, Turn
  <2> DEFINE r == [t EXCEPT !.at = at]
  <2>2. r \in Turns /\ r.holds = 0 /\ r.at # "commit"
    BY <1>2, <1>3, <1>5 DEF ResolvePromoteConfig, Turns
  <2>3. UNCHANGED config
    BY <1>5 DEF ResolvePromoteConfig
  <2> QED BY <2>1, <2>2, <2>3, <1>4, TurnInv
<1>6. CASE NextVersion(p)
  <2> DEFINE w == MaxVersion + 1
             r == [t EXCEPT !.at = "update", !.version = w]
  <2>1. promo' = [promo EXCEPT ![p] = r] /\ UNCHANGED config
    BY <1>6 DEF NextVersion, Turn
  <2>2. r \in Turns /\ r.holds = 0 /\ r.at # "commit"
    <3>1. w \in Nat
      BY <1>1, MaxVersionIs
    <3> HIDE DEF w
    <3> QED BY <1>2, <1>3, <1>6, <3>1 DEF NextVersion, Turns
  <2> QED BY <2>1, <2>2, <1>4, TurnInv
<1>7. CASE StartUpdate(p)
  <2> DEFINE r == [t EXCEPT !.at = "lock", !.sees = ActiveRow]
  <2>1. promo' = [promo EXCEPT ![p] = r] /\ UNCHANGED config
    BY <1>7 DEF StartUpdate, Turn
  <2>2. ActiveRow \in Nat
    <3>1. DOMAIN config = 1..Len(config) /\ Len(config) \in Nat
      BY <1>1, LenProperties
    <3> QED BY <3>1 DEF ActiveRow, Active
  <2>3. r \in Turns /\ r.holds = 0 /\ r.at # "commit"
    BY <1>2, <1>3, <1>7, <2>2 DEF StartUpdate, Turns
  <2> QED BY <2>1, <2>3, <1>4, TurnInv
<1>8. CASE HoldRow(p)
  <2> DEFINE held == IF t.sees \in Active THEN t.sees ELSE 0
             r == [t EXCEPT !.at = "insert", !.holds = held]
  <2>1. promo' = [promo EXCEPT ![p] = r] /\ UNCHANGED config
    BY <1>8 DEF HoldRow, Turn
  <2>2. held \in Nat /\ (held # 0 => held \in Active)
    BY <1>2
  <2>3. held # 0 => \A q \in Promoters : promo[q].holds # held
    BY <1>8 DEF HoldRow
  <2>4. r \in Turns /\ r.holds = held /\ r.at = "insert"
    <3> HIDE DEF held
    <3> QED BY <1>2, <2>2 DEF Turns
  <2> QED BY <2>1, <2>2, <2>3, <2>4, <1>4, TurnInv
<1>9. CASE InsertActive(p)
  <2>1. CASE Active \subseteq {t.holds}
    <3> DEFINE r == [t EXCEPT !.at = "commit"]
    <3>1. promo' = [promo EXCEPT ![p] = r] /\ UNCHANGED config
      BY <1>9, <2>1 DEF InsertActive, Turn
    <3>2. r \in Turns /\ r.holds = t.holds /\ r.at = "commit"
      BY <1>2 DEF Turns
    <3>3. \A q \in Promoters : promo[q].at # "commit"
      BY <1>9 DEF InsertActive
    <3>4. t.holds # 0 => /\ t.holds \in Active
                         /\ \A q \in Promoters \ {p} : promo[q].holds # t.holds
      BY DEF ConfigInv, Held
    <3> QED BY <2>1, <3>1, <3>2, <3>3, <3>4, <1>4, TurnInv
  <2>2. CASE ~(Active \subseteq {t.holds})
    <3> DEFINE r == [t EXCEPT !.at = "over", !.holds = 0]
    <3>1. promo' = [promo EXCEPT ![p] = r] /\ UNCHANGED config
      BY <1>9, <2>2 DEF InsertActive, Turn
    <3>2. r \in Turns /\ r.holds = 0 /\ r.at # "commit"
      BY <1>2 DEF Turns
    <3> QED BY <3>1, <3>2, <1>4, TurnInv
  <2> QED BY <2>1, <2>2
<1>10. CASE PromoterDies(p)
  <2> DEFINE r == [t EXCEPT !.at = "over", !.holds = 0]
  <2>1. promo' = [promo EXCEPT ![p] = r] /\ UNCHANGED config
    BY <1>10 DEF PromoterDies, Turn
  <2>2. r \in Turns /\ r.holds = 0 /\ r.at # "commit"
    BY <1>2 DEF Turns
  <2> QED BY <2>1, <2>2, <1>4, TurnInv
<1> QED BY <1>5, <1>6, <1>7, <1>8, <1>9, <1>10 DEF PromoteStep

\* The commit: the row it held was the only active one, so that the new one is.
LEMMA CommitOfPromotion ==
  ASSUME ConfigInv, NEW p \in Promoters, CommitPromotion(p)
  PROVE  ConfigInv' /\ Readers!Promote
<1>1. config \in Seq(Rows) /\ promo \in [Promoters -> Turns] /\ HasHighest
  BY DEF ConfigInv, PromoOK
<1> DEFINE row == promo[p].holds
           v == promo[p].version
           r == [promo[p] EXCEPT !.at = "over", !.holds = 0]
           n == Len(config)
<1>2. row \in Nat /\ v \in Nat /\ r \in Turns /\ r.holds = 0 /\ r.at = "over"
  BY <1>1 DEF Turns
<1>3. /\ config' = Append(Deactivated(row), [version |-> v, active |-> TRUE])
      /\ promo' = [promo EXCEPT ![p] = r] /\ promo[p].at = "commit"
  BY DEF CommitPromotion, Turn
<1>4. /\ config' \in Seq(Rows) /\ HasHighest' /\ Active' = (Active \ {row}) \cup {n + 1}
      /\ n \in Nat /\ Active \subseteq 1..n
  <2> HIDE DEF row, v
  <2> QED BY <1>1, <1>2, <1>3, AfterCommit
<1>5. Active \subseteq {row}
  BY <1>3 DEF ConfigInv, OneWriter
<1>6. Active' = {n + 1}
  <2> HIDE DEF n, row
  <2> QED BY <1>4, <1>5
<1>7. Readers!Promote
  <2>1. \A old \in Active : old < n + 1
    BY <1>4
  <2> QED BY <1>6, <2>1 DEF Readers!Promote
<1>8. \A q \in Promoters : /\ promo'[q] = IF q = p THEN r ELSE promo[q]
                           /\ q # p => promo[q].at # "commit" /\ promo[q].holds = 0
  <2>1. \A q \in Promoters \ {p} : promo[q].at # "commit"
    BY <1>3 DEF ConfigInv, OneWriter
  <2>2. \A q \in Promoters \ {p} : promo[q].holds = 0
    BY <1>5 DEF ConfigInv, Held
  <2> QED BY <1>1, <1>3, <2>1, <2>2
<1>9. PromoOK'
  BY <1>1, <1>2, <1>3, <1>4 DEF PromoOK
<1>10. OneActive' /\ Held' /\ OneWriter'
  BY <1>2, <1>6, <1>8 DEF OneActive, Held, OneWriter
<1> QED BY <1>7, <1>9, <1>10 DEF ConfigInv

LEMMA ConfigStep ==
  ASSUME ConfigInv, [ConfigNext]_configVars
  PROVE  ConfigInv' /\ (Readers!Promote \/ Active' = Active)
<1>1. CASE UNCHANGED <<config, promo>>
  BY <1>1 DEF ConfigInv, PromoOK, HasHighest, OneActive, Held, OneWriter, Active
<1>2. ASSUME NEW p \in Promoters, PromoteStep(p)
      PROVE  ConfigInv' /\ (Readers!Promote \/ Active' = Active)
  BY <1>2, TurnOfPromotion, CommitOfPromotion
<1>3. ASSUME NEW e \in Editors, FetchPreset(e) \/ WritePreset(e)
      PROVE  UNCHANGED <<config, promo>>
  BY <1>3 DEF FetchPreset, WritePreset
<1> QED BY <1>1, <1>2, <1>3 DEF ConfigNext, configVars

-----------------------------------------------------------------------------
\* The inductive invariant of overlapping promotions
THEOREM PromotionInvariant == ConfigSpec => []ConfigInv
<1>1. ConfigInit => ConfigInv
  BY ConfigInitInv
<1>2. ConfigInv /\ [ConfigNext]_configVars => ConfigInv'
  BY ConfigStep
<1> QED BY <1>1, <1>2, PTL DEF ConfigSpec

\* Any number of promotions, overlapping and failing as they may, look to the
\* readers of the active row (rag_production_config.py 29-50) like one after the
\* other, each at once.
THEOREM PromotionsAtomic == ConfigSpec => PromotionIsAtomic
<1>1. ConfigInit => Readers!NothingPromoted
  BY ConfigInitInv DEF ConfigInit, Active, Readers!NothingPromoted
<1>2. ConfigInv /\ [ConfigNext]_configVars => [Readers!Promote]_Active
  BY ConfigStep
<1> QED BY <1>1, <1>2, PromotionInvariant, PTL
       DEF ConfigSpec, PromotionIsAtomic, Readers!PromotionSpec

-----------------------------------------------------------------------------
(***************************************************************************)
(* Edits of a preset.  An edit that no other overtook since it read the    *)
(* row still has the row as it is.                                         *)
(***************************************************************************)
EditRecords == [at : {"idle", "read", "over"}, col : Columns, saw : Presets, late : BOOLEAN]

EditInv ==
  /\ preset \in Presets
  /\ edit \in [Editors -> EditRecords]
  /\ \A e \in Editors : edit[e].at = "read" /\ ~edit[e].late => edit[e].saw = preset

\* a preset as it was created, and nobody at it
LEMMA EditInitInv == ConfigInit => EditInv
<1> SUFFICES ASSUME ConfigInit PROVE EditInv
  OBVIOUS
<1>1. preset \in Presets
  BY DEF ConfigInit, Presets
<1>2. edit = [e \in Editors |-> [at |-> "idle", col |-> "name", saw |-> preset, late |-> FALSE]]
  BY DEF ConfigInit
<1>3. edit \in [Editors -> EditRecords] /\ \A e \in Editors : edit[e].at = "idle"
  BY <1>1, <1>2 DEF EditRecords, Columns
<1> QED BY <1>1, <1>3 DEF EditInv

\* what an edit writes is a preset again
LEMMA WrittenPreset ==
  ASSUME EditInv, NEW e \in Editors, WritePreset(e)
  PROVE  /\ edit[e] \in EditRecords /\ preset' \in Presets
         /\ \A c \in Columns : preset'.value[c] = IF c = edit[e].col THEN e ELSE edit[e].saw.value[c]
<1> DEFINE r == edit[e]
           seen == r.saw
<1>1. r \in EditRecords /\ seen \in Presets
  BY DEF EditInv, EditRecords
<1>2. /\ seen.value \in [Columns -> Editors \cup {NoRow}] /\ seen.version + 1 \in Nat
      /\ r.col \in Columns
  BY <1>1 DEF EditRecords, Presets
<1>3. preset' = [value |-> [seen.value EXCEPT ![r.col] = e], version |-> seen.version + 1]
  BY DEF WritePreset
<1> HIDE DEF seen, r
<1>4. [seen.value EXCEPT ![r.col] = e] \in [Columns -> Editors \cup {NoRow}]
  BY <1>2
<1>5. \A c \in Columns : [seen.value EXCEPT ![r.col] = e][c] = IF c = r.col THEN e ELSE seen.value[c]
  BY <1>2
<1>6. preset' \in Presets /\ preset'.value = [seen.value EXCEPT ![r.col] = e]
  BY <1>2, <1>3, <1>4 DEF Presets
<1> QED BY <1>1, <1>5, <1>6 DEF seen, r

\* A write makes every other edit that is on its way a late one.
LEMMA EditStep == EditInv /\ [ConfigNext]_configVars => EditInv'
<1> SUFFICES ASSUME EditInv, [ConfigNext]_configVars PROVE EditInv'
  OBVIOUS
<1>1. CASE UNCHANGED <<preset, edit>>
  BY <1>1 DEF EditInv
<1>2. ASSUME NEW p \in Promoters, PromoteStep(p)
      PROVE  UNCHANGED <<preset, edit>>
  BY <1>2 DEF PromoteStep, ResolvePromoteConfig, NextVersion, StartUpdate, HoldRow, InsertActive,
              CommitPromotion, PromoterDies, OnlyPromo
<1>3. ASSUME NEW e \in Editors, FetchPreset(e) PROVE EditInv'
  <2>1. PICK c \in Columns :
          edit' = [edit EXCEPT ![e] = [at |-> "read", col |-> c, saw |-> preset, late |-> FALSE]]
    BY <1>3 DEF FetchPreset
  <2>2. [at |-> "read", col |-> c, saw |-> preset, late |-> FALSE] \in EditRecords /\ preset' = preset
    BY <1>3 DEF FetchPreset, EditInv, EditRecords
  <2>3. /\ edit' \in [Editors -> EditRecords] /\ edit'[e].saw = preset
        /\ \A f \in Editors \ {e} : edit'[f] = edit[f]
    BY <2>1, <2>2 DEF EditInv
  <2> QED BY <2>2, <2>3 DEF EditInv
<1>4. ASSUME NEW e \in Editors, WritePreset(e) PROVE EditInv'
  <2>1. edit' = Late(e)
    BY <1>4 DEF WritePreset
  <2>2. ASSUME NEW f \in Editors
        PROVE  edit'[f] \in EditRecords /\ ~(edit'[f].at = "read" /\ ~edit'[f].late)
    <3>1. edit[f] \in EditRecords
      BY DEF EditInv
    <3>2. CASE f = e
      <4>1. edit'[f] = [edit[e] EXCEPT !.at = "over"]
        BY <2>1, <3>2 DEF Late
      <4> QED BY <3>1, <3>2, <4>1 DEF EditRecords
    <3>3. CASE f # e
      <4> DEFINE r == edit[f]
                 isRead == r.at = "read"
      <4>1. edit'[f] = [r EXCEPT !.late = isRead]
        BY <2>1, <3>3 DEF Late
      <4>2. isRead \in BOOLEAN
        OBVIOUS
      <4>3. edit'[f] \in EditRecords /\ edit'[f].at = r.at /\ edit'[f].late = isRead
        <5> HIDE DEF isRead
        <5> QED BY <3>1, <4>1, <4>2 DEF EditRecords
      <4> QED BY <4>3
    <3> QED BY <3>2, <3>3
  <2>3. edit' \in [Editors -> EditRecords]
    BY <2>1, <2>2 DEF Late
  <2> QED BY <1>4, <2>2, <2>3, WrittenPreset DEF EditInv
<1>5. ASSUME ConfigNext PROVE EditInv'
  BY <1>1, <1>2, <1>3, <1>4, <1>5 DEF ConfigNext
<1> QED BY <1>1, <1>5 DEF configVars

\* The inductive invariant of overlapping edits
THEOREM EditInvariant == ConfigSpec => []EditInv
<1> QED BY EditInitInv, EditStep, PTL DEF ConfigSpec

\* The rows, the transactions and the edits are well typed; the versions are numbers
\* because some row has the highest (MAX(version), rag_production_config_service.py).
THEOREM ConfigTyped == ConfigSpec => []ConfigTypeOK
<1>1. ConfigInv /\ EditInv => ConfigTypeOK
  BY DEF ConfigInv, PromoOK, EditInv, EditRecords, Turns, ConfigTypeOK
<1> QED BY <1>1, PromotionInvariant, EditInvariant, PTL

\* An edit of a preset (update_eval_config_preset) changes another column than its own
\* only when another edit was written between its read and its write, for any number of
\* requests at a time.
THEOREM EditsKeepToTheirColumn == ConfigSpec => EditsOwnColumn
<1> DEFINE Own == \A c \in Columns : preset'.value[c] # preset.value[c] =>
                    \E e \in Editors : edit[e].at = "read" /\ (edit[e].col = c \/ edit[e].late)
<1>1. EditInv /\ [ConfigNext]_configVars => [Own]_configVars
  <2> SUFFICES ASSUME EditInv, ConfigNext, NEW c \in Columns, preset'.value[c] # preset.value[c]
               PROVE  \E e \in Editors : edit[e].at = "read" /\ (edit[e].col = c \/ edit[e].late)
    BY DEF configVars
  <2>1. preset' # preset
    OBVIOUS
  <2>2. PICK e \in Editors : WritePreset(e)
    BY <2>1 DEF ConfigNext, PromoteStep, ResolvePromoteConfig, NextVersion, StartUpdate, HoldRow,
                InsertActive, CommitPromotion, PromoterDies, OnlyPromo, FetchPreset
  <2>3. edit[e].at = "read"
    BY <2>2 DEF WritePreset
  <2>4. edit[e].col # c => edit[e].saw.value[c] # preset.value[c]
    BY <2>2, WrittenPreset
  <2>5. edit[e].col # c => edit[e].late
    BY <2>3, <2>4 DEF EditInv
  <2> QED BY <2>3, <2>5
<1> QED BY <1>1, EditInvariant, PTL DEF ConfigSpec, EditsOwnColumn

-----------------------------------------------------------------------------
(***************************************************************************)
(* LastAdminKept, for any number of accounts and of requests at a time.    *)
(*                                                                         *)
(* Every step that changes who is an admin marks the requests it overtook  *)
(* as stale.  The invariant says of the others that what they read is      *)
(* still so: whoever is about to lose the role has another admin beside    *)
(* him, and an invitation that is about to be retracted or to get its role *)
(* is not accepted yet.                                                    *)
(***************************************************************************)
InTime(c) == call[c] # NoCall /\ ~call[c].stale

\* what is still so of a request that has read its target
StillSo(c) ==
  LET u == call[c].target IN
  /\ call[c].at = "act" /\ call[c].op \in Guarded /\ u \in Admins => Cardinality(Admins) > 1
  /\ call[c].at = "count" => call[c].op \in Guarded
  /\ call[c].at = "act" /\ call[c].op = "revoke" => account[u].status = "invited"
  /\ call[c].at = "role" => call[c].op = "invite" /\ account[u].status = "invited"

Checked == \A c \in AdminCalls : InTime(c) => StillSo(c)

UserInv == UserTypeOK /\ Checked

-----------------------------------------------------------------------------
LEMMA UserInitInv == UserInit => UserInv
BY UserAssumption DEF UserInit, UserInv, UserTypeOK, Checked, InTime, Calls

\* A request ends, and nothing else changes
LEMMA EndsInv ==
  ASSUME UserInv, NEW c \in AdminCalls, Ends(c), UNCHANGED <<account, token, calls>>
  PROVE  UserInv' /\ Admins' = Admins
<1>1. UserTypeOK'
  BY DEF UserInv, UserTypeOK, Ends, Calls
<1>2. Admins' = Admins
  BY DEF Admins
<1>3. \A d \in AdminCalls : InTime(d)' => InTime(d) /\ call'[d] = call[d]
  BY DEF UserInv, UserTypeOK, Ends, InTime
<1>4. Checked'
  BY <1>2, <1>3 DEF UserInv, Checked, StillSo
<1> QED BY <1>1, <1>2, <1>4 DEF UserInv

\* A request goes on, and nothing else changes
LEMMA GoesInv ==
  ASSUME UserInv, NEW c \in AdminCalls, call[c] # NoCall,
         NEW place \in {"count", "role", "act"}, Goes(c, place),
         UNCHANGED <<account, token, calls>>,
         InTime(c) => StillSo(c)'
  PROVE  UserInv' /\ Admins' = Admins
<1>1. call[c] \in Calls /\ \A d \in AdminCalls :
        call'[d] = IF d = c THEN [call[c] EXCEPT !.at = place] ELSE call[d]
  BY DEF UserInv, UserTypeOK, Goes
<1>2. [call[c] EXCEPT !.at = place] \in Calls
  BY <1>1 DEF Calls
<1>3. UserTypeOK'
  BY <1>2 DEF UserInv, UserTypeOK, Goes
<1>4. Admins' = Admins
  BY DEF Admins
<1>5. InTime(c)' => InTime(c)
  BY <1>1 DEF InTime, Calls
<1>6. \A d \in AdminCalls \ {c} : InTime(d)' => StillSo(d)'
  BY <1>1, <1>4 DEF UserInv, Checked, InTime, StillSo
<1>7. Checked'
  BY <1>5, <1>6 DEF Checked
<1> QED BY <1>3, <1>4, <1>7 DEF UserInv

\* A step that changes an account and overtakes whoever else is under way
LEMMA ChangesInv ==
  ASSUME UserInv, NEW c \in AdminCalls, NEW u \in Users, NEW a \in Accounts,
         Changes(c, u, a), UNCHANGED <<token, calls>>
  PROVE  UserInv'
<1>1. \A d \in AdminCalls : call'[d] = IF d = c THEN NoCall ELSE Overtaken(d)
  BY DEF Changes
<1>2. \A d \in AdminCalls : Overtaken(d) \in Calls /\ (Overtaken(d) = NoCall \/ Overtaken(d).stale)
  BY DEF UserInv, UserTypeOK, Overtaken, Calls, NoCall
<1>3. UserTypeOK'
  BY <1>2 DEF UserInv, UserTypeOK, Changes, Calls
<1>4. \A d \in AdminCalls : ~InTime(d)'
  BY <1>1, <1>2 DEF InTime
<1> QED BY <1>3, <1>4 DEF UserInv, Checked

-----------------------------------------------------------------------------
\* Reading and counting leave a request with what it needs to go on.
LEMMA GetUserInv ==
  ASSUME UserInv, NEW c \in AdminCalls, GetUser(c)
  PROVE  UserInv' /\ Admins' = Admins
<1>1. CASE Ends(c)
  BY <1>1, EndsInv DEF GetUser
<1>2. CASE ~Ends(c)
  <2> DEFINE place == IF MustCount(c, account[call[c].target]) THEN "count" ELSE "act"
  <2>1. Goes(c, place) /\ call[c] # NoCall /\ UNCHANGED <<account, token, calls>>
    BY <1>2 DEF GetUser, At
  <2>2. call[c].op = "revoke" => account[call[c].target].status = "invited"
    BY <1>2 DEF GetUser
  <2>3. call[c] \in Calls /\ call'[c] = [call[c] EXCEPT !.at = place]
    BY <2>1 DEF UserInv, UserTypeOK, Goes
  <2>4. /\ call'[c].at = place /\ call'[c].op = call[c].op
        /\ call'[c].target = call[c].target
    BY <2>1, <2>3 DEF Calls
  <2>5. StillSo(c)'
    <3>1. place = "act" /\ call[c].op \in Guarded => call[c].target \notin Admins
      BY DEF MustCount, Admins
    <3>2. place = "count" => call[c].op \in Guarded
      BY DEF MustCount
    <3>3. Admins' = Admins /\ account' = account
      BY <2>1 DEF Admins
    <3> QED BY <2>2, <2>4, <3>1, <3>2, <3>3 DEF StillSo
  <2> QED BY <2>1, <2>5, GoesInv
<1> QED BY <1>1, <1>2

LEMMA CountAdminsInv ==
  ASSUME UserInv, NEW c \in AdminCalls, CountAdmins(c)
  PROVE  UserInv' /\ Admins' = Admins
<1>1. CASE ~EnoughAdmins
  BY <1>1, EndsInv DEF CountAdmins
<1>2. CASE EnoughAdmins
  <2>1. Goes(c, "act") /\ call[c] # NoCall /\ call[c].at = "count" /\ UNCHANGED <<account, token, calls>>
    BY <1>2 DEF CountAdmins, At
  <2>2. call[c] \in Calls /\ call'[c] = [call[c] EXCEPT !.at = "act"]
    BY <2>1 DEF UserInv, UserTypeOK, Goes
  <2>3. call'[c].at = "act" /\ call'[c].op = call[c].op
    BY <2>1, <2>2 DEF Calls
  <2>4. InTime(c) => call[c].op \in Guarded
    BY <2>1 DEF UserInv, Checked, StillSo
  <2>5. Cardinality(Admins') > 1
    BY <1>2, <2>1 DEF EnoughAdmins, Admins
  <2>6. InTime(c) => StillSo(c)'
    BY <2>3, <2>4, <2>5 DEF StillSo, Guarded
  <2> QED BY <2>1, <2>6, GoesInv
<1> QED BY <1>1, <1>2

-----------------------------------------------------------------------------
\* Only a request that was checked takes the last admin away.
Loses == Admins # {} /\ Admins' = {}

Culprit(c) ==
  /\ call[c] # NoCall /\ call'[c] = NoCall
  /\ \/ call[c].stale
     \/ call[c].op \in {"revoke", "invite"} /\ account[call[c].target].status = "invited"

LEMMA UpdateInv ==
  ASSUME UserInv, NEW c \in AdminCalls, Update(c)
  PROVE  UserInv' /\ (Loses => Culprit(c))
<1> DEFINE u == call[c].target
           a == account[u]
           new == CASE call[c].op \in {"delete", "revoke"} -> Gone
                    [] call[c].op = "disable" -> [a EXCEPT !.status = "disabled"]
                    [] call[c].op = "enable"  ->
                         [a EXCEPT !.status = IF @ = "disabled" THEN "active" ELSE @]
                    [] call[c].op = "demote"  -> [a EXCEPT !.role = "viewer"]
                    [] call[c].op = "promote" -> [a EXCEPT !.role = "admin"]
<1>1. CASE a = Gone
  <2>1. Ends(c) /\ UNCHANGED <<account, token, calls>>
    BY <1>1 DEF Update
  <2>2. UserInv' /\ Admins' = Admins
    BY <2>1, EndsInv
  <2> QED BY <2>2 DEF Loses
<1>2. CASE a # Gone
  <2>1. Changes(c, u, new) /\ UNCHANGED <<token, calls>>
    BY <1>2 DEF Update
  <2>2. /\ call[c] # NoCall /\ call[c].at = "act"
        /\ call[c].op \in {"delete", "disable", "demote", "promote", "enable", "revoke"}
    BY DEF Update, At, Ops, Guarded
  <2>3. call[c] \in Calls /\ u \in Users
    BY <2>2 DEF UserInv, UserTypeOK, Calls
  <2>4. a \in Accounts
    BY <2>3 DEF UserInv, UserTypeOK
  <2>5. a \in [role : Roles, status : {"invited", "active", "disabled"}]
    BY <1>2, <2>4 DEF Accounts
  <2>6. new \in Accounts
    BY <2>2, <2>5 DEF Accounts, Roles
  <2>7. UserInv'
    <3> HIDE DEF u, new
    <3> QED BY <2>1, <2>3, <2>6, ChangesInv DEF u
  <2>8. ASSUME Loses PROVE Culprit(c)
    <3>1. call'[c] = NoCall /\ account' = [account EXCEPT ![u] = new]
      BY <2>1 DEF Changes, UserInv, UserTypeOK
    <3>2. account \in [Users -> Accounts]
      BY DEF UserInv, UserTypeOK
    <3>3. \A v \in Users \ {u} : v \in Admins => v \in Admins'
      BY <3>1, <3>2 DEF Admins
    <3>4. Admins = {u} /\ a.role = "admin" /\ a.status # "disabled"
      BY <2>8, <3>3 DEF Loses, Admins
    <3>5. account'[u] = new /\ ~(new.role = "admin" /\ new.status # "disabled")
      BY <2>3, <2>8, <3>1, <3>2 DEF Loses, Admins
    <3>6. call[c].op \notin {"promote", "enable"}
      BY <2>5, <3>4, <3>5
    <3>7. CASE ~call[c].stale
      <4>1. StillSo(c)
        BY <2>2, <3>7 DEF UserInv, Checked, InTime
      <4>2. Cardinality(Admins) = 1
        BY <3>4, FS_Singleton
      <4>3. call[c].op \notin Guarded
        BY <2>2, <3>4, <4>1, <4>2 DEF StillSo
      <4>4. call[c].op = "revoke"
        BY <2>2, <3>6, <4>3 DEF Guarded
      <4> QED BY <2>2, <3>1, <4>1, <4>4 DEF StillSo, Culprit
    <3> QED BY <2>2, <3>1, <3>7 DEF Culprit
  <2> QED BY <2>7, <2>8
<1> QED BY <1>1, <1>2

LEMMA InviteInv ==
  ASSUME UserInv, NEW c \in AdminCalls, Invite(c)
  PROVE  UserInv' /\ Admins' = Admins
<1> DEFINE u == call[c].target
           made == [role |-> "none", status |-> "invited"]
<1>1. call[c] # NoCall /\ call[c].at = "act" /\ UNCHANGED <<token, calls>>
  BY DEF Invite, At
<1>2. call[c] \in Calls /\ u \in Users /\ account \in [Users -> Accounts]
  BY <1>1 DEF UserInv, UserTypeOK, Calls
<1>3. ASSUME Goes(c, "role"), call[c].op = "invite", account'[u].status = "invited"
      PROVE  StillSo(c)'
  <2>1. call'[c] = [call[c] EXCEPT !.at = "role"]
    BY <1>3 DEF UserInv, UserTypeOK, Goes
  <2>2. call'[c].at = "role" /\ call'[c].op = "invite" /\ call'[c].target = u
    BY <1>1, <1>2, <1>3, <2>1 DEF Calls
  <2> QED BY <1>3, <2>2 DEF StillSo
<1>4. CASE account[u] = Gone
  <2>1. account' = [account EXCEPT ![u] = made]
    BY <1>4 DEF Invite
  <2>2. (Goes(c, "role") /\ call[c].op = "invite") \/ Ends(c)
    BY <1>4 DEF Invite
  <2>3. \A v \in Users : account'[v] = IF v = u THEN made ELSE account[v]
    BY <1>2, <2>1
  <2>4. Admins' = Admins
    BY <1>4, <2>3 DEF Admins, Gone
  <2>5. account' \in [Users -> Accounts]
    BY <1>2, <2>1 DEF Accounts, Roles
  <2>6. \A d \in AdminCalls \ {c} : call'[d] = call[d]
    BY <2>2 DEF UserInv, UserTypeOK, Goes, Ends
  <2>7. \A d \in AdminCalls \ {c} : InTime(d)' => StillSo(d)'
    <3> SUFFICES ASSUME NEW d \in AdminCalls \ {c}, InTime(d)' PROVE StillSo(d)'
      OBVIOUS
    <3>1. call'[d] = call[d] /\ InTime(d) /\ StillSo(d)
      BY <2>6 DEF UserInv, Checked, InTime
    <3>2. call[d] \in Calls /\ call[d].target \in Users
      BY <3>1 DEF UserInv, UserTypeOK, Calls, InTime
    <3>3. account[call[d].target].status = "invited" => account'[call[d].target].status = "invited"
      BY <1>4, <2>3, <3>2 DEF Gone
    <3> QED BY <2>4, <3>1, <3>3 DEF StillSo
  <2>8. InTime(c)' => StillSo(c)'
    <3>1. CASE Ends(c)
      BY <3>1 DEF Ends, InTime, UserInv, UserTypeOK
    <3>2. CASE Goes(c, "role") /\ call[c].op = "invite"
      BY <1>2, <1>3, <2>3, <3>2
    <3> QED BY <2>2, <3>1, <3>2
  <2>9. call' \in [AdminCalls -> Calls]
    <3>1. [call[c] EXCEPT !.at = "role"] \in Calls
      BY <1>1, <1>2 DEF Calls
    <3> QED BY <2>2, <3>1 DEF UserInv, UserTypeOK, Goes, Ends, Calls
  <2> QED BY <1>1, <2>4, <2>5, <2>7, <2>8, <2>9 DEF UserInv, UserTypeOK, Checked
<1>5. CASE account[u] # Gone
  <2>1. UNCHANGED <<account, token, calls>>
    BY <1>1, <1>5 DEF Invite
  <2>2. Ends(c) \/ (Goes(c, "role") /\ call[c].op = "invite" /\ account'[u].status = "invited")
    BY <1>5 DEF Invite
  <2> QED BY <1>1, <1>3, <2>1, <2>2, EndsInv, GoesInv
<1> QED BY <1>4, <1>5

LEMMA InviteRoleInv ==
  ASSUME UserInv, NEW c \in AdminCalls, InviteRole(c)
  PROVE  UserInv' /\ (Loses => Culprit(c))
<1> DEFINE u == call[c].target
<1>1. call[c] # NoCall /\ call[c].at = "role" /\ UNCHANGED <<token, calls>>
  BY DEF InviteRole, At
<1>2. CASE Ends(c) /\ UNCHANGED account
  BY <1>1, <1>2, EndsInv DEF Loses
<1>3. ASSUME NEW r \in {"admin", "viewer"}, account[u] # Gone, Changes(c, u, [account[u] EXCEPT !.role = r])
      PROVE  UserInv' /\ (Loses => Culprit(c))
  <2>1. call[c] \in Calls /\ u \in Users /\ account[u] \in Accounts \ {Gone}
    BY <1>1, <1>3 DEF UserInv, UserTypeOK, Calls
  <2>2. [account[u] EXCEPT !.role = r] \in Accounts
    BY <2>1 DEF Accounts, Roles
  <2>3. UserInv'
    BY <1>1, <1>3, <2>1, <2>2, ChangesInv
  <2>4. call'[c] = NoCall
    BY <1>3 DEF Changes
  <2>5. ~call[c].stale => StillSo(c)
    BY <1>1 DEF UserInv, Checked, InTime
  <2> QED BY <1>1, <2>3, <2>4, <2>5 DEF StillSo, Culprit
<1> QED BY <1>2, <1>3 DEF InviteRole

-----------------------------------------------------------------------------
LEMMA RequestInv ==
  ASSUME UserInv, NEW c \in AdminCalls, NEW op \in Ops, NEW actor \in Users,
         NEW target \in Users, Request(c, op, actor, target)
  PROVE  UserInv' /\ Admins' = Admins
<1> DEFINE r == [at |-> IF op \in {"enable", "invite"} THEN "act" ELSE "get", op |-> op,
                 self |-> actor = target, target |-> target, stale |-> FALSE]
<1>1. call' = [call EXCEPT ![c] = r] /\ calls' = calls + 1 /\ calls < MaxCalls /\ UNCHANGED <<account, token>>
  BY DEF Request
<1>2. r \in Calls /\ r.at # "count" /\ r.at # "role" /\ r.op = op
      /\ (r.at = "act" => op \notin Guarded /\ op # "revoke")
  BY DEF Calls, Guarded
<1>3. Admins' = Admins
  BY <1>1 DEF Admins
<1>4. UserTypeOK'
  <2>1. calls' \in 0..MaxCalls
    BY <1>1, UserAssumption DEF UserInv, UserTypeOK
  <2>2. call' \in [AdminCalls -> Calls]
    <3> HIDE DEF r
    <3> QED BY <1>1, <1>2 DEF UserInv, UserTypeOK
  <2> QED BY <1>1, <2>1, <2>2 DEF UserInv, UserTypeOK
<1>5. \A d \in AdminCalls : call'[d] = IF d = c THEN r ELSE call[d]
  BY <1>1 DEF UserInv, UserTypeOK
<1>6. Checked'
  <2> HIDE DEF r
  <2> QED BY <1>1, <1>2, <1>3, <1>5 DEF UserInv, Checked, InTime, StillSo
<1> QED BY <1>3, <1>4, <1>6 DEF UserInv

LEMMA AcceptInviteInv ==
  ASSUME UserInv, NEW u \in Users, AcceptInvite(u)
  PROVE  UserInv' /\ ~Loses
<1>1. account[u].status = "invited" /\ account \in [Users -> Accounts]
  BY DEF AcceptInvite, UserInv, UserTypeOK
<1>2. account[u] \in [role : Roles, status : {"invited", "active", "disabled"}]
  BY <1>1 DEF Accounts, Gone
<1>3. /\ account' = [account EXCEPT ![u] = [account[u] EXCEPT !.status = "active"]]
      /\ [account[u] EXCEPT !.status = "active"] \in Accounts
  BY <1>2 DEF AcceptInvite, Accounts
<1>4. \A d \in AdminCalls : Overtaken(d) \in Calls /\ (Overtaken(d) = NoCall \/ Overtaken(d).stale)
  BY DEF UserInv, UserTypeOK, Overtaken, Calls, NoCall
<1>5. UserTypeOK'
  BY <1>1, <1>3, <1>4 DEF AcceptInvite, UserInv, UserTypeOK
<1>6. Checked'
  BY <1>4 DEF AcceptInvite, Checked, InTime
<1>7. Admins \subseteq Admins'
  BY <1>1, <1>2, <1>3 DEF Admins
<1> QED BY <1>5, <1>6, <1>7 DEF UserInv, Loses

LEMMA UserStep ==
  ASSUME UserInv, [UserNext]_userVars
  PROVE  UserInv' /\ (Loses => \E c \in AdminCalls : Culprit(c))
<1>1. ASSUME NEW c \in AdminCalls, CallStep(c) \/ CallFails(c)
      PROVE  UserInv' /\ (Loses => Culprit(c))
  <2>1. CASE GetUser(c) \/ CountAdmins(c) \/ Invite(c)
    BY <2>1, GetUserInv, CountAdminsInv, InviteInv DEF Loses
  <2>2. CASE Update(c) \/ InviteRole(c)
    BY <2>2, UpdateInv, InviteRoleInv
  <2>3. CASE CallFails(c)
    BY <2>3, EndsInv DEF CallFails, Loses
  <2> QED BY <1>1, <2>1, <2>2, <2>3 DEF CallStep
<1>2. ASSUME NEW c \in AdminCalls, NEW op \in Ops, NEW actor \in Users,
             NEW target \in Users, Request(c, op, actor, target)
      PROVE  UserInv' /\ ~Loses
  BY <1>2, RequestInv DEF Loses
<1>3. ASSUME NEW u \in Users, SignIn(u)
      PROVE  UserInv' /\ ~Loses
  BY <1>3 DEF SignIn, UserInv, UserTypeOK, Checked, InTime, StillSo, Admins, Loses
<1>4. ASSUME NEW u \in Users, AcceptInvite(u)
      PROVE  UserInv' /\ ~Loses
  BY <1>4, AcceptInviteInv
<1>5. CASE UNCHANGED userVars
  BY <1>5 DEF userVars, UserInv, UserTypeOK, Checked, InTime, StillSo, Admins, Loses
<1> QED BY <1>1, <1>2, <1>3, <1>4, <1>5 DEF UserNext

-----------------------------------------------------------------------------
\* What a request has read is still so, unless another one overtook it.
THEOREM ReadsHold == UserSpec => []UserInv
<1>1. UserInv /\ [UserNext]_userVars => UserInv'
  BY UserStep
<1> QED BY <1>1, UserInitInv, PTL DEF UserSpec

\* The last admin is lost only to a request that another one overtook, or to the
\* routes of invitations, which have no guard (user_admin.py 76-109).
THEOREM LastAdminStays == UserSpec => LastAdminKept
<1>1. UserInv /\ [UserNext]_userVars =>
        [Admins # {} /\ Admins' = {} =>
           \E c \in AdminCalls :
             /\ call[c] # NoCall /\ call'[c] = NoCall
             /\ \/ call[c].stale
                \/ call[c].op \in {"revoke", "invite"} /\ account[call[c].target].status = "invited"]_userVars
  BY UserStep DEF Loses, Culprit
<1> QED BY <1>1, ReadsHold, PTL DEF UserSpec, LastAdminKept

-----------------------------------------------------------------------------
(***************************************************************************)
(* RecordsAgree and ResultNotUndone, for any number of job records of a    *)
(* run, of executions and of faults.                                       *)
(*                                                                         *)
(* Neither is inductive as it stands.  The first rests on the order inside *)
(* an execution, whose rows are stored before it may show its summary, and *)
(* on the order of a delete, whose run is deleted before its record is     *)
(* removed.  The second rests on nothing being there before the run is     *)
(* created, so that the insert takes no result away.                       *)
(***************************************************************************)
\* An execution about to show its summary has stored its rows.
Stored == \A j \in EvalJobs : execs[j] = "complete" => j \in items

\* The request that is to remove a record has deleted the run.
DeletedFirst == deleter # NoJob => evalRun.deleted

Nothing == [status |-> "none", at |-> "idle"]

\* Before the run is created there is neither a job nor an execution, nor a delete or a
\* cancel.
NotBegun ==
  creator = "idle" => /\ evalRun.status = "none" /\ deleter = NoJob /\ canceller = NoJob
                      /\ \A j \in EvalJobs : evalJobs[j] = Nothing /\ execs[j] = "none"

EvalInv == EvalTypeOK /\ RecordsAgree /\ Stored /\ DeletedFirst /\ NotBegun

\* The three steps after which a completed run is none any more
Undone == evalRun.status = "completed" /\ evalRun'.status # "completed"
Redone == \E j \in EvalJobs : execs[j] \in {"start", "fail"}

Statuses  == {"none", "pending", "running", "completed", "failed", "cancelled", "gone"}
JobPlaces == {"idle", "queued", "call", "wait"}

-----------------------------------------------------------------------------
LEMMA EvalInitInv == EvalInit => EvalInv
BY EvalAssumption DEF EvalInit, EvalInv, EvalTypeOK, RunRows, EvalRecs, ExecSteps, RecordsAgree,
   SummaryHasItems, DeletedJobDeletedRun, Stored, DeletedFirst, NotBegun, Nothing

\* A fault is counted up to its bound.
LEMMA FaultCounted ==
  ASSUME EvalTypeOK, EvalFault
  PROVE  evalFaults' \in 0..MaxEvalFaults
BY EvalAssumption DEF EvalTypeOK, EvalFault

\* What the writes of a record leave of the records: the deleted ones are those
\* that were deleted, and the others are as they were.
Kept(j) ==
  /\ evalJobs' \in [EvalJobs -> EvalRecs]
  /\ \A k \in EvalJobs : evalJobs'[k].status = "gone" => evalJobs[k].status = "gone"

LEMMA PutKeeps ==
  ASSUME EvalTypeOK, NEW j \in EvalJobs, NEW status \in Statuses \ {"gone"}, NEW at \in JobPlaces,
         Put(j, status, at)
  PROVE  Kept(j)
BY DEF EvalTypeOK, Put, Kept, EvalRecs, Statuses, JobPlaces

LEMMA UpdateKeeps ==
  ASSUME EvalTypeOK, NEW j \in EvalJobs, NEW status \in Statuses \ {"gone"}, NEW at \in JobPlaces,
         UpdateEvalJob(j, status, at)
  PROVE  Kept(j)
<1> DEFINE new == IF evalJobs[j].status = "gone" THEN [evalJobs[j] EXCEPT !.at = "idle"]
                  ELSE [status |-> status, at |-> at]
<1>1. evalJobs' = [evalJobs EXCEPT ![j] = new]
  BY DEF UpdateEvalJob
<1>2. new \in EvalRecs /\ (new.status = "gone" => evalJobs[j].status = "gone")
  BY DEF EvalTypeOK, EvalRecs, Statuses, JobPlaces
<1> HIDE DEF new
<1> QED BY <1>1, <1>2 DEF EvalTypeOK, Kept

LEMMA AnswerKeeps ==
  ASSUME EvalTypeOK, NEW j \in EvalJobs, NEW status \in {"completed", "failed"}, Answer(j, status)
  PROVE  Kept(j) /\ execs' = [execs EXCEPT ![j] = "over"]
<1>1. execs' = [execs EXCEPT ![j] = "over"]
  BY DEF Answer, Goto
<1>2. CASE UpdateEvalJob(j, status, "idle")
  BY <1>1, <1>2, UpdateKeeps DEF Statuses, JobPlaces
<1>3. CASE UNCHANGED evalJobs
  BY <1>1, <1>3 DEF EvalTypeOK, Kept
<1> QED BY <1>2, <1>3 DEF Answer

-----------------------------------------------------------------------------
(***************************************************************************)
(* The steps by what they write.                                           *)
(***************************************************************************)
\* A step of the creator or of the eval jobs that leaves the run, its items and
\* its executions alone
LEMMA RecordStep ==
  ASSUME EvalInv, NEW j \in EvalJobs, Kept(j), creator # "idle",
         creator' \in {"enqueue", "failing", "over", "lost"},
         evalFaults' \in 0..MaxEvalFaults, canceller' \in EvalJobs \cup {NoJob},
         UNCHANGED <<evalRun, items, deleter, execs>>
  PROVE  EvalInv' /\ ~Undone
<1>1. EvalTypeOK'
  BY DEF EvalInv, EvalTypeOK, Kept
<1>2. RecordsAgree'
  BY DEF EvalInv, RecordsAgree, SummaryHasItems, DeletedJobDeletedRun, Kept
<1>3. Stored' /\ DeletedFirst' /\ NotBegun' /\ ~Undone
  BY DEF EvalInv, Stored, DeletedFirst, NotBegun, Undone
<1> QED BY <1>1, <1>2, <1>3 DEF EvalInv

\* A step of an execution that goes on to a place where it has not yet to show
\* its summary, or has stored its rows
LEMMA ExecutionStep ==
  ASSUME EvalInv, NEW j \in EvalJobs, execs[j] # "none",
         NEW place \in ExecSteps, execs' = [execs EXCEPT ![j] = place],
         place = "complete" => j \in items',
         items' \in {items, items \cup {j}}, Kept(j),
         evalRun' \in RunRows, evalRun'.deleted = evalRun.deleted,
         evalRun'.status = "completed" => evalRun'.shows \in items',
         evalFaults' \in 0..MaxEvalFaults, UNCHANGED <<creator, deleter, canceller>>
  PROVE  EvalInv'
<1>1. EvalTypeOK'
  BY DEF EvalInv, EvalTypeOK, Kept
<1>2. RecordsAgree'
  BY DEF EvalInv, RecordsAgree, SummaryHasItems, DeletedJobDeletedRun, Kept
<1>3. Stored'
  BY DEF EvalInv, EvalTypeOK, Stored
<1>4. creator # "idle"
  BY DEF EvalInv, NotBegun
<1>5. DeletedFirst' /\ NotBegun'
  BY <1>4 DEF EvalInv, DeletedFirst, NotBegun
<1> QED BY <1>1, <1>2, <1>3, <1>5 DEF EvalInv

-----------------------------------------------------------------------------
LEMMA CreatorInv ==
  ASSUME EvalInv, CreatorStep
  PROVE  EvalInv' /\ ~Undone
<1>1. EvalTypeOK /\ evalFaults \in 0..MaxEvalFaults /\ canceller \in EvalJobs \cup {NoJob}
  BY DEF EvalInv, EvalTypeOK
<1>2. ASSUME UNCHANGED evalJobs PROVE \A j \in EvalJobs : Kept(j)
  BY <1>1, <1>2 DEF EvalTypeOK, Kept
<1>3. ASSUME NEW j \in EvalJobs, Put(j, "failed", "idle") \/ Put(j, "pending", "queued")
      PROVE  Kept(j)
  BY <1>1, <1>3, PutKeeps DEF Statuses, JobPlaces
<1>4. CASE CreateEvalRun
  <2>1. evalRun.status = "none" /\ evalRun' = [evalRun EXCEPT !.status = "pending"]
    BY <1>4 DEF CreateEvalRun, EvalInv, NotBegun
  <2> QED BY <1>4, <2>1 DEF CreateEvalRun, EvalInv, EvalTypeOK, RunRows, RecordsAgree, SummaryHasItems,
             DeletedJobDeletedRun, Stored, DeletedFirst, NotBegun, Undone
<1>5. CASE FailEvalRunDispatch
  BY <1>5 DEF FailEvalRunDispatch, EvalInv, EvalTypeOK, RunRows, RecordsAgree, SummaryHasItems,
     DeletedJobDeletedRun, Stored, DeletedFirst, NotBegun, Undone
<1>6. ASSUME NEW j \in EvalJobs, EvalJobCreated(j) PROVE EvalInv' /\ ~Undone
  <2>1. Kept(j)
    BY <1>3, <1>6 DEF EvalJobCreated
  <2> QED BY <1>1, <1>6, <2>1, RecordStep DEF EvalJobCreated
<1>7. CASE EvalJobRefused \/ EvalReplyLost
  <2>1. /\ creator # "idle" /\ creator' \in {"failing", "lost"}
        /\ EvalFault /\ UNCHANGED <<evalRun, items, deleter, canceller, execs>>
    BY <1>7 DEF EvalJobRefused, EvalReplyLost
  <2>2. evalFaults' \in 0..MaxEvalFaults
    BY <1>1, <2>1, FaultCounted
  <2>3. CASE UNCHANGED evalJobs
    <3>1. CASE EvalJobs = {}
      BY <1>1, <2>1, <2>2, <2>3, <3>1 DEF EvalInv, EvalTypeOK, RecordsAgree, SummaryHasItems,
         DeletedJobDeletedRun, Stored, DeletedFirst, NotBegun, Undone
    <3>2. CASE EvalJobs # {}
      <4>1. PICK j \in EvalJobs : TRUE
        BY <3>2
      <4> QED BY <1>1, <1>2, <2>1, <2>2, <2>3, RecordStep
    <3> QED BY <3>1, <3>2
  <2>4. ASSUME NEW j \in EvalJobs, Put(j, "failed", "idle") \/ Put(j, "pending", "queued")
        PROVE  EvalInv' /\ ~Undone
    BY <1>1, <1>3, <2>1, <2>2, <2>4, RecordStep
  <2> QED BY <1>7, <2>3, <2>4 DEF EvalJobRefused, EvalReplyLost
<1> QED BY <1>4, <1>5, <1>6, <1>7 DEF CreatorStep

\* The worker of an eval job, its retry, and the wait that ends
LEMMA EvalJobInv ==
  ASSUME EvalInv, NEW j \in EvalJobs,
         EvalJobStep(j) \/ ExecuteTimesOut(j) \/ \E k \in EvalJobs : RetryEvalJob(j, k)
  PROVE  EvalInv' /\ ~Undone
<1>1. /\ EvalTypeOK /\ evalFaults \in 0..MaxEvalFaults /\ canceller \in EvalJobs \cup {NoJob}
      /\ creator \in {"idle", "enqueue", "failing", "over", "lost"}
  BY DEF EvalInv, EvalTypeOK
<1>2. evalJobs[j] # Nothing => creator # "idle"
  BY DEF EvalInv, NotBegun
<1>3. CASE StartEvalJob(j)
  <2>1. Kept(j)
    BY <1>1, <1>3, UpdateKeeps DEF StartEvalJob, Statuses, JobPlaces
  <2> QED BY <1>1, <1>2, <1>3, <2>1, RecordStep DEF StartEvalJob, Nothing
<1>4. CASE CallExecute(j)
  <2>1. evalJobs' = [evalJobs EXCEPT ![j].at = "wait"] /\ creator # "idle"
    BY <1>2, <1>4 DEF CallExecute, Nothing
  <2>2. evalJobs[j] \in EvalRecs /\ evalJobs \in [EvalJobs -> EvalRecs]
    BY <1>1 DEF EvalTypeOK
  <2>3. Kept(j)
    BY <2>1, <2>2 DEF Kept, EvalRecs
  <2>4. EvalTypeOK'
    BY <1>1, <1>4, <2>3 DEF CallExecute, EvalTypeOK, Kept, ExecSteps
  <2>5. Stored'
    BY <1>1, <1>4 DEF CallExecute, EvalInv, EvalTypeOK, Stored
  <2>6. RecordsAgree'
    BY <1>4, <2>3 DEF CallExecute, EvalInv, RecordsAgree, SummaryHasItems, DeletedJobDeletedRun, Kept
  <2> QED BY <1>4, <2>1, <2>4, <2>5, <2>6 DEF CallExecute, EvalInv, DeletedFirst, NotBegun, Undone
<1>5. CASE ExecuteTimesOut(j)
  <2>1. Kept(j)
    BY <1>1, <1>5, UpdateKeeps DEF ExecuteTimesOut, Statuses, JobPlaces
  <2>2. evalFaults' \in 0..MaxEvalFaults
    BY <1>1, <1>5, FaultCounted DEF ExecuteTimesOut
  <2> QED BY <1>1, <1>2, <1>5, <2>1, <2>2, RecordStep DEF ExecuteTimesOut, Nothing
<1>6. ASSUME NEW k \in EvalJobs, RetryEvalJob(j, k) PROVE EvalInv' /\ ~Undone
  <2>1. Kept(k)
    BY <1>1, <1>6, PutKeeps DEF RetryEvalJob, Statuses, JobPlaces
  <2> QED BY <1>1, <1>2, <1>6, <2>1, RecordStep DEF RetryEvalJob, Nothing
<1> QED BY <1>3, <1>4, <1>5, <1>6 DEF EvalJobStep

\* A cancel stops the worker, and then writes the record or not
LEMMA CancelInv ==
  ASSUME EvalInv, WriteCancelled \/ CancellerDies \/ \E j \in EvalJobs : CancelEvalJob(j)
  PROVE  EvalInv' /\ ~Undone
<1>1. /\ evalJobs \in [EvalJobs -> EvalRecs] /\ evalFaults \in 0..MaxEvalFaults
      /\ creator \in {"idle", "enqueue", "failing", "over", "lost"}
      /\ canceller \in EvalJobs \cup {NoJob}
  BY DEF EvalInv, EvalTypeOK
<1>2. CASE WriteCancelled
  <2>1. canceller \in EvalJobs /\ creator # "idle" /\ canceller' = NoJob
    BY <1>1, <1>2 DEF WriteCancelled, EvalInv, NotBegun
  <2>2. Kept(canceller)
    BY <1>1, <1>2, <2>1 DEF WriteCancelled, Kept, EvalRecs
  <2> QED BY <1>1, <1>2, <2>1, <2>2, RecordStep DEF WriteCancelled
<1>3. CASE CancellerDies
  <2>1. canceller \in EvalJobs /\ creator # "idle" /\ canceller' = NoJob
    BY <1>1, <1>3 DEF CancellerDies, EvalInv, NotBegun
  <2>2. Kept(canceller) /\ evalFaults' \in 0..MaxEvalFaults
    BY <1>1, <1>3, FaultCounted DEF CancellerDies, Kept, EvalInv
  <2> QED BY <1>1, <1>3, <2>1, <2>2, RecordStep DEF CancellerDies
<1>4. ASSUME NEW j \in EvalJobs, CancelEvalJob(j) PROVE EvalInv' /\ ~Undone
  <2>1. creator # "idle" /\ canceller' = j
    BY <1>4 DEF CancelEvalJob, EvalInv, NotBegun, Nothing
  <2>2. Kept(j)
    BY <1>1, <1>4 DEF CancelEvalJob, Kept, EvalRecs
  <2> QED BY <1>1, <1>4, <2>1, <2>2, RecordStep DEF CancelEvalJob
<1> QED BY <1>2, <1>3, <1>4

\* What operators delete
LEMMA DeleteInv ==
  ASSUME EvalInv, \/ SoftDeleteEvalRun \/ RemoveEvalRecord \/ DeleterDies
                  \/ \E j \in EvalJobs : DeleteEvalJob(j)
  PROVE  EvalInv' /\ ~Undone
<1>1. CASE SoftDeleteEvalRun
  BY <1>1 DEF SoftDeleteEvalRun, EvalInv, EvalTypeOK, RunRows, RecordsAgree, SummaryHasItems,
     DeletedJobDeletedRun, Stored, DeletedFirst, NotBegun, Undone
<1>2. CASE RemoveEvalRecord
  <2>1. deleter \in EvalJobs /\ evalRun.deleted
    BY <1>2 DEF RemoveEvalRecord, EvalInv, EvalTypeOK, DeletedFirst
  <2>2. creator # "idle"
    BY <1>2, <2>1 DEF RemoveEvalRecord, EvalInv, NotBegun
  <2>3. evalJobs' \in [EvalJobs -> EvalRecs]
    BY <1>2, <2>1 DEF RemoveEvalRecord, EvalInv, EvalTypeOK, EvalRecs
  <2> QED BY <1>2, <2>1, <2>2, <2>3 DEF RemoveEvalRecord, EvalInv, EvalTypeOK, RecordsAgree,
             SummaryHasItems, DeletedJobDeletedRun, Stored, DeletedFirst, NotBegun, Undone
<1>3. CASE DeleterDies
  <2>1. evalFaults' \in 0..MaxEvalFaults
    BY <1>3, FaultCounted DEF DeleterDies, EvalInv
  <2> QED BY <1>3, <2>1 DEF DeleterDies, EvalInv, EvalTypeOK, RecordsAgree, SummaryHasItems,
             DeletedJobDeletedRun, Stored, DeletedFirst, NotBegun, Undone
<1>4. ASSUME NEW j \in EvalJobs, DeleteEvalJob(j) PROVE EvalInv' /\ ~Undone
  <2>1. creator # "idle"
    BY <1>4 DEF DeleteEvalJob, EvalInv, NotBegun, Nothing
  <2> QED BY <1>4, <2>1 DEF DeleteEvalJob, EvalInv, EvalTypeOK, RunRows, RecordsAgree, SummaryHasItems,
             DeletedJobDeletedRun, Stored, DeletedFirst, NotBegun, Undone
<1> QED BY <1>1, <1>2, <1>3, <1>4

LEMMA ExecInv ==
  ASSUME EvalInv, NEW j \in EvalJobs, ExecStep(j)
  PROVE  EvalInv' /\ (Undone => Redone)
<1>1. EvalTypeOK /\ evalFaults \in 0..MaxEvalFaults /\ evalRun \in RunRows
  BY DEF EvalInv, EvalTypeOK
<1>2. evalRun.status = "completed" => evalRun.shows \in items
  BY DEF EvalInv, RecordsAgree, SummaryHasItems
<1>3. ASSUME UNCHANGED evalJobs PROVE Kept(j)
  BY <1>1, <1>3 DEF EvalTypeOK, Kept
<1>4. ASSUME NEW status \in {"completed", "failed"}, Answer(j, status)
      PROVE  Kept(j) /\ execs' = [execs EXCEPT ![j] = "over"]
  BY <1>1, <1>4, AnswerKeeps
<1>5. ASSUME EvalFault PROVE evalFaults' \in 0..MaxEvalFaults
  BY <1>1, <1>5, FaultCounted
<1>6. CASE LoadEvalRun(j)
  BY <1>1, <1>2, <1>3, <1>4, <1>6, ExecutionStep DEF LoadEvalRun, Goto, ExecSteps, Undone
<1>7. CASE ResolveRuntime(j) \/ RunCases(j)
  BY <1>1, <1>2, <1>3, <1>7, ExecutionStep DEF ResolveRuntime, RunCases, Goto, ExecSteps, Undone
<1>8. CASE ResolveRaises(j) \/ ExecutionDies(j)
  BY <1>1, <1>2, <1>4, <1>5, <1>8, ExecutionStep DEF ResolveRaises, ExecutionDies, ExecSteps, Undone
<1>9. CASE ExecuteRaises(j)
  BY <1>1, <1>2, <1>3, <1>5, <1>9, ExecutionStep DEF ExecuteRaises, Goto, ExecSteps, Undone
<1>10. CASE SetRunRunning(j)
  <2>1. evalRun' = [evalRun EXCEPT !.status = "running"] /\ execs[j] = "start"
    BY <1>10 DEF SetRunRunning, SetRun
  <2>2. evalRun' \in RunRows /\ evalRun'.deleted = evalRun.deleted /\ evalRun'.status = "running"
    BY <1>1, <2>1 DEF RunRows
  <2>3. Redone
    BY <2>1 DEF Redone
  <2> QED BY <1>1, <1>3, <1>10, <2>2, <2>3, ExecutionStep DEF SetRunRunning, Goto, ExecSteps
<1>11. CASE FailRun(j)
  <2>1. evalRun' = [evalRun EXCEPT !.status = "failed"] /\ execs[j] = "fail"
    BY <1>11 DEF FailRun, SetRun
  <2>2. evalRun' \in RunRows /\ evalRun'.deleted = evalRun.deleted /\ evalRun'.status = "failed"
    BY <1>1, <2>1 DEF RunRows
  <2>3. Redone
    BY <2>1 DEF Redone
  <2> QED BY <1>1, <1>4, <1>11, <2>1, <2>2, <2>3, ExecutionStep DEF FailRun, ExecSteps
<1>12. CASE PersistResults(j)
  BY <1>1, <1>2, <1>3, <1>12, ExecutionStep DEF PersistResults, Goto, ExecSteps, Undone
<1>13. CASE CompleteRun(j)
  <2>1. evalRun' = [evalRun EXCEPT !.status = "completed", !.shows = j] /\ j \in items
    BY <1>13 DEF CompleteRun, EvalInv, Stored
  <2>2. /\ evalRun' \in RunRows /\ evalRun'.deleted = evalRun.deleted
        /\ evalRun'.status = "completed" /\ evalRun'.shows = j
    BY <1>1, <2>1 DEF RunRows
  <2> QED BY <1>1, <1>4, <1>13, <2>1, <2>2, ExecutionStep DEF CompleteRun, ExecSteps, Undone
<1> QED BY <1>6, <1>7, <1>8, <1>9, <1>10, <1>11, <1>12, <1>13 DEF ExecStep

LEMMA EvalStep ==
  ASSUME EvalInv, [EvalNext]_evalVars
  PROVE  EvalInv' /\ (Undone => Redone)
<1>1. CASE UNCHANGED evalVars
  BY <1>1 DEF evalVars, EvalInv, EvalTypeOK, RecordsAgree, SummaryHasItems, DeletedJobDeletedRun,
     Stored, DeletedFirst, NotBegun, Undone
<1>2. CASE CreatorStep
  BY <1>2, CreatorInv
<1>3. CASE OperatorStep
  BY <1>3, DeleteInv, CancelInv, EvalJobInv DEF OperatorStep
<1>4. ASSUME NEW j \in EvalJobs, EvalJobStep(j) \/ ExecStep(j) PROVE EvalInv' /\ (Undone => Redone)
  BY <1>4, EvalJobInv, ExecInv
<1> QED BY <1>1, <1>2, <1>3, <1>4 DEF EvalNext

-----------------------------------------------------------------------------
\* The variables keep their types, the rows of a summary are stored before it is
\* shown, and a run is deleted before the record of its job.
THEOREM EvalInvariant == EvalSpec => []EvalInv
<1>1. EvalInv /\ [EvalNext]_evalVars => EvalInv'
  BY EvalStep
<1> QED BY <1>1, EvalInitInv, PTL DEF EvalSpec

\* A completed run has the questions of its summary, and a job that was deleted
\* a deleted run (eval_run_execute.py 189-202, app.py 440-470).
THEOREM RecordsStayInStep == EvalSpec => []RecordsAgree
<1>1. EvalInv => RecordsAgree
  BY DEF EvalInv
<1> QED BY <1>1, EvalInvariant, PTL

\* Only another execution of the run takes a result back.
THEOREM ResultStays == EvalSpec => ResultNotUndone
<1>1. EvalInv /\ [EvalNext]_evalVars =>
        [evalRun.status = "completed" /\ evalRun'.status # "completed"
           => \E j \in EvalJobs : execs[j] \in {"start", "fail"}]_evalVars
  BY EvalStep DEF Undone, Redone
<1> QED BY <1>1, EvalInvariant, PTL DEF EvalSpec, ResultNotUndone

-----------------------------------------------------------------------------
(***************************************************************************)
(* The page of the jobs.  A cursor is a place in the list of its own       *)
(* container, which only grows, so what is sent is an event; and a copy of *)
(* the store has a record of each job that is still to be published.       *)
(***************************************************************************)
OpenStreams == [at : {"list", "publish", "send"}, on : Containers, cursor : Nat,
                todo : SUBSET SseJobs, copy : UNION {[T -> 0..MaxUpdates] : T \in SUBSET SseJobs}]
Brokers     == [events : Seq(Events), print : [SseJobs -> 0..Absent]]
JobPages    == [shows : [SseJobs -> 0..Absent], sse : {"open", "wait", "ended"},
                poll : BOOLEAN, answer : [SseJobs -> 0..Absent] \cup {<<>>},
                overtaken : BOOLEAN]

InList(st, b) ==
  st # Closed => st.cursor <= Len(b[st.on].events) /\ st.copy \in [st.todo -> 0..MaxUpdates]

StreamsOK == /\ stream \in [Streams -> OpenStreams \cup {Closed}]
             /\ \A s \in Streams : InList(stream[s], broker)

SseInv == /\ jobRev \in [SseJobs -> 0..Absent]
          /\ broker \in [Containers -> Brokers]
          /\ StreamsOK
          /\ jobsPage \in JobPages
          /\ sseFaults \in 0..MaxSseFaults

\* A stream that goes on, opens or ends while no list changes
LEMMA StreamTurns ==
  ASSUME StreamsOK, NEW s \in Streams, NEW st \in OpenStreams \cup {Closed},
         stream' = [stream EXCEPT ![s] = st], UNCHANGED broker, InList(st, broker)
  PROVE  StreamsOK'
BY DEF StreamsOK, InList

LEMMA ClosedIsNone == Closed \notin OpenStreams /\ InList(Closed, broker) /\ Closed.at = "closed"
BY DEF Closed, OpenStreams, InList

LEMMA Opened ==
  ASSUME SseInv, NEW c \in Containers
  PROVE  Open(c) \in OpenStreams /\ InList(Open(c), broker)
<1>1. <<>> \in [{} -> 0..MaxUpdates]
  OBVIOUS
<1>2. Open(c) \in OpenStreams
  BY <1>1 DEF Open, OpenStreams
<1>3. Len(broker[c].events) \in Nat
  BY LenProperties DEF SseInv, Brokers
<1>4. 0 <= Len(broker[c].events)
  BY <1>3
<1> QED BY <1>1, <1>2, <1>4 DEF InList, Open

LEMMA Published ==
  ASSUME SseInv, NEW s \in Streams, MaybePublish(s)
  PROVE  broker' \in [Containers -> Brokers] /\ StreamsOK'
<1> DEFINE st == stream[s]
           c == st.on
<1>1. PICK j \in st.todo :
        /\ broker' = IF broker[c].print[j] = st.copy[j] THEN broker
                     ELSE [broker EXCEPT ![c].events = Append(@, [job |-> j, rev |-> st.copy[j]]),
                                         ![c].print[j] = st.copy[j]]
        /\ stream' = [stream EXCEPT ![s] = Without(st, j)]
        /\ st.at = "publish"
  BY DEF MaybePublish, SseInv, StreamsOK
<1> DEFINE rev == st.copy[j]
           e == [job |-> j, rev |-> rev]
           b == broker[c]
           new == [b EXCEPT !.events = Append(@, e), !.print[j] = rev]
<1>2. /\ st \in OpenStreams /\ st # Closed /\ c \in Containers /\ j \in SseJobs
      /\ st.copy \in [st.todo -> 0..MaxUpdates] /\ st.cursor <= Len(b.events)
      /\ st.todo \subseteq SseJobs /\ st.cursor \in Nat
  BY <1>1, ClosedIsNone DEF SseInv, StreamsOK, OpenStreams, InList
<1>3. rev \in 0..MaxUpdates /\ rev \in 0..Absent /\ e \in Events
  BY <1>1, <1>2, SseAssumption DEF Absent, Events
<1>4. b \in Brokers /\ b.events \in Seq(Events) /\ Len(b.events) \in Nat
  BY <1>2, LenProperties DEF SseInv, Brokers
<1>5. Append(b.events, e) \in Seq(Events) /\ Len(Append(b.events, e)) = Len(b.events) + 1
  <2> HIDE DEF e, b
  <2> QED BY <1>3, <1>4, AppendProperties
<1>6. new \in Brokers /\ new.events = Append(b.events, e)
  <2> HIDE DEF e, rev
  <2> QED BY <1>1, <1>2, <1>3, <1>4, <1>5 DEF Brokers
<1>7. broker' = broker \/ broker' = [broker EXCEPT ![c] = new]
  BY <1>1, <1>2 DEF SseInv
<1>8. broker' \in [Containers -> Brokers]
  <2> HIDE DEF new, c
  <2> QED BY <1>2, <1>6, <1>7 DEF SseInv
<1>9. \A d \in Containers : Len(broker[d].events) \in Nat /\ Len(broker[d].events) <= Len(broker'[d].events)
  <2>1. \A d \in Containers : Len(broker[d].events) \in Nat
    BY LenProperties DEF SseInv, Brokers
  <2>2. CASE broker' = broker
    BY <2>1, <2>2
  <2>3. CASE broker' = [broker EXCEPT ![c] = new]
    <3>1. \A d \in Containers : broker'[d] = IF d = c THEN new ELSE broker[d]
      BY <2>3 DEF SseInv
    <3>2. Len(new.events) = Len(b.events) + 1
      BY <1>5, <1>6
    <3> HIDE DEF new
    <3> QED BY <1>4, <2>1, <3>1, <3>2
  <2> QED BY <1>7, <2>2, <2>3
<1> DEFINE go == Without(st, j)
<1>10. go \in OpenStreams /\ go.on = c /\ go.cursor = st.cursor
       /\ go.copy \in [go.todo -> 0..MaxUpdates]
  <2>1. [k \in st.todo \ {j} |-> st.copy[k]] \in [st.todo \ {j} -> 0..MaxUpdates]
    BY <1>2
  <2> DEFINE rest == [k \in st.todo \ {j} |-> st.copy[k]]
             at == IF st.todo = {j} THEN "send" ELSE "publish"
  <2>2. go = [st EXCEPT !.todo = st.todo \ {j}, !.at = at, !.copy = rest]
    BY <1>2 DEF Without, OpenStreams
  <2>3. at \in {"send", "publish"}
    OBVIOUS
  <2>4. st.todo \ {j} \in SUBSET SseJobs
    BY <1>2
  <2> HIDE DEF rest, at, go, st
  <2>5. rest \in UNION {[T -> 0..MaxUpdates] : T \in SUBSET SseJobs}
    BY <2>1, <2>4 DEF rest
  <2> QED BY <1>2, <2>1, <2>2, <2>3, <2>4, <2>5 DEF OpenStreams, rest, c
<1>11. \A t \in Streams : stream'[t] = IF t = s THEN go ELSE stream[t]
  BY <1>1 DEF SseInv, StreamsOK
<1>12. ASSUME NEW t \in Streams
       PROVE  stream'[t] \in OpenStreams \cup {Closed} /\ InList(stream'[t], broker')
  <2>1. CASE t = s
    <3>1. Len(b.events) <= Len(broker'[c].events) /\ Len(broker'[c].events) \in Nat
      BY <1>2, <1>8, <1>9, LenProperties DEF Brokers
    <3>2. go.cursor <= Len(broker'[go.on].events)
      <4> HIDE DEF go, b, c, st
      <4> QED BY <1>2, <1>4, <1>10, <3>1
    <3> QED BY <1>10, <1>11, <2>1, <3>2 DEF InList
  <2>2. CASE t # s /\ stream[t] # Closed
    <3>1. stream[t] \in OpenStreams /\ InList(stream[t], broker)
      BY <2>2 DEF SseInv, StreamsOK
    <3>2. stream[t].on \in Containers /\ stream[t].cursor \in Nat
      BY <3>1 DEF OpenStreams
    <3>3. Len(broker'[stream[t].on].events) \in Nat
      BY <1>8, <3>2, LenProperties DEF Brokers
    <3>4. stream[t].cursor <= Len(broker'[stream[t].on].events)
      BY <1>9, <2>2, <3>1, <3>2, <3>3 DEF InList
    <3> QED BY <1>11, <2>2, <3>1, <3>4 DEF InList
  <2>3. CASE t # s /\ stream[t] = Closed
    BY <1>11, <2>3 DEF InList
  <2> QED BY <2>1, <2>2, <2>3
<1>13. stream' \in [Streams -> OpenStreams \cup {Closed}]
  <2>1. stream' = [t \in Streams |-> stream'[t]]
    BY <1>1 DEF SseInv, StreamsOK
  <2> QED BY <1>12, <2>1
<1> QED BY <1>8, <1>12, <1>13 DEF StreamsOK

LEMMA Listed ==
  ASSUME SseInv, NEW s \in Streams, ListJobs(s)
  PROVE  StreamsOK'
<1> DEFINE st == stream[s]
           at == IF Recorded = {} THEN "send" ELSE "publish"
           copy == [j \in Recorded |-> jobRev[j]]
           go == [st EXCEPT !.at = at, !.copy = copy, !.todo = Recorded]
<1>1. st \in OpenStreams /\ st # Closed /\ InList(st, broker)
  BY ClosedIsNone DEF ListJobs, SseInv, StreamsOK
<1>2. /\ copy \in [Recorded -> 0..MaxUpdates] /\ Recorded \in SUBSET SseJobs
      /\ at \in {"send", "publish"}
  BY SseAssumption DEF SseInv, Recorded, Absent
<1>3. /\ go \in OpenStreams /\ go.on = st.on /\ go.cursor = st.cursor
      /\ go.copy = copy /\ go.todo = Recorded
  <2> HIDE DEF st, copy, at
  <2>1. copy \in UNION {[T -> 0..MaxUpdates] : T \in SUBSET SseJobs}
    BY <1>2
  <2> QED BY <1>1, <1>2, <2>1 DEF OpenStreams
<1>4. InList(go, broker)
  <2> HIDE DEF go, st, copy
  <2> QED BY <1>1, <1>2, <1>3 DEF InList
<1>5. stream' = [stream EXCEPT ![s] = go] /\ UNCHANGED broker
  BY DEF ListJobs, SseInv, StreamsOK
<1> HIDE DEF go
<1> QED BY <1>3, <1>4, <1>5, StreamTurns DEF SseInv

LEMMA Sent ==
  ASSUME SseInv, NEW s \in Streams, SendEvent(s)
  PROVE  StreamsOK' /\ jobsPage' \in JobPages
<1> DEFINE st == stream[s]
           sent == broker[st.on].events
<1>1. st \in OpenStreams /\ st # Closed /\ InList(st, broker) /\ st.on \in Containers /\ st.cursor \in Nat
  BY ClosedIsNone DEF SendEvent, SseInv, StreamsOK, OpenStreams
<1>2. sent \in Seq(Events) /\ Len(sent) \in Nat /\ UNCHANGED broker
  BY <1>1, LenProperties DEF SseInv, Brokers, SendEvent
<1>3. CASE st.cursor < Len(sent)
  <2> DEFINE go == [st EXCEPT !.cursor = @ + 1]
             e == sent[st.cursor + 1]
  <2>1. go \in OpenStreams /\ go.on = st.on /\ go.cursor = st.cursor + 1 /\ go.copy = st.copy
        /\ go.todo = st.todo
    <3> HIDE DEF st
    <3> QED BY <1>1 DEF OpenStreams
  <2>2. InList(go, broker)
    <3>1. go.cursor <= Len(broker[go.on].events)
      BY <1>1, <1>2, <1>3, <2>1
    <3> QED BY <1>1, <2>1, <3>1 DEF InList
  <2>3. /\ stream' = [stream EXCEPT ![s] = go]
        /\ jobsPage' = IF s = PageStream THEN Shown(e) ELSE jobsPage
    BY <1>3 DEF SendEvent, SseInv, StreamsOK
  <2>4. e \in Events
    <3>1. st.cursor + 1 \in 1..Len(sent)
      BY <1>1, <1>2, <1>3
    <3> HIDE DEF sent, st
    <3> QED BY <1>2, <3>1, ElementOfSeq
  <2>5. Shown(e) \in JobPages
    <3>1. e.job \in SseJobs /\ e.rev \in 0..Absent
      <4> HIDE DEF e
      <4> QED BY <2>4, SseAssumption DEF Events, Absent
    <3> HIDE DEF e
    <3> QED BY <3>1 DEF Shown, SseInv, JobPages
  <2>6. StreamsOK'
    <3> HIDE DEF go
    <3> QED BY <1>2, <2>1, <2>2, <2>3, StreamTurns DEF SseInv
  <2> QED BY <2>3, <2>5, <2>6 DEF SseInv
<1>4. CASE ~(st.cursor < Len(sent))
  <2> DEFINE go == [st EXCEPT !.at = "list"]
  <2>1. go \in OpenStreams /\ go.on = st.on /\ go.cursor = st.cursor /\ go.copy = st.copy
        /\ go.todo = st.todo
    <3> HIDE DEF st
    <3> QED BY <1>1 DEF OpenStreams
  <2>2. InList(go, broker)
    BY <1>1, <2>1 DEF InList
  <2>3. stream' = [stream EXCEPT ![s] = go] /\ UNCHANGED jobsPage
    BY <1>4 DEF SendEvent, SseInv, StreamsOK
  <2> HIDE DEF go
  <2> QED BY <1>2, <2>1, <2>2, <2>3, StreamTurns DEF SseInv
<1> QED BY <1>3, <1>4

\* The steps of the page, of the other viewers and of the world
LEMMA PageTurns ==
  ASSUME SseInv, PageStep \/ SseWorld
  PROVE  SseInv'
<1>1. AskList \in [SseJobs -> 0..Absent] \cup {<<>>}
  BY DEF AskList, SseInv, JobPages
<1>2. SseFault => sseFaults' \in 0..MaxSseFaults
  BY SseAssumption DEF SseFault, SseInv
<1>3. \A a \in [SseJobs -> 0..Absent] \cup {<<>>} : [jobsPage EXCEPT !.answer = a] \in JobPages
  BY DEF SseInv, JobPages
<1>4. CASE Connect
  <2>1. PICK c \in Containers : stream' = [stream EXCEPT ![PageStream] = Open(c)]
    BY <1>4 DEF Connect
  <2>2. StreamsOK'
    BY <1>4, <2>1, Opened, StreamTurns, SseAssumption DEF Connect, SseInv
  <2>3. jobsPage' \in JobPages
    BY <1>4 DEF Connect, SseInv, JobPages
  <2> QED BY <1>4, <2>2, <2>3 DEF Connect, SseInv
<1>5. CASE RequestList
  BY <1>1, <1>3, <1>5 DEF RequestList, SseInv, StreamsOK
<1>6. CASE UserRefresh
  BY <1>1, <1>2, <1>3, <1>6 DEF UserRefresh, SseInv, StreamsOK
<1>7. CASE ListArrives
  <2>1. jobsPage' \in JobPages
    BY <1>7 DEF ListArrives, SseInv, JobPages
  <2> QED BY <1>7, <2>1 DEF ListArrives, SseInv, StreamsOK
<1>8. CASE ListFails
  BY <1>2, <1>3, <1>8 DEF ListFails, SseInv, StreamsOK
<1>9. CASE StreamBreaks
  <2>1. StreamsOK'
    BY <1>9, ClosedIsNone, StreamTurns, SseAssumption DEF StreamBreaks, SseInv
  <2>2. jobsPage' \in JobPages
    BY <1>1, <1>9 DEF StreamBreaks, SseInv, JobPages
  <2> QED BY <1>2, <1>9, <2>1, <2>2 DEF StreamBreaks, SseInv
<1>10. CASE StreamEnds
  <2>1. StreamsOK'
    BY <1>10, ClosedIsNone, StreamTurns, SseAssumption DEF StreamEnds, SseInv
  <2>2. jobsPage' \in JobPages
    BY <1>10 DEF StreamEnds, SseInv, JobPages
  <2> QED BY <1>2, <1>10, <2>1, <2>2 DEF StreamEnds, SseInv
<1>11. ASSUME NEW j \in SseJobs, UpdateJob(j) \/ DeleteJob(j) PROVE SseInv'
  <2>1. jobRev' \in [SseJobs -> 0..Absent]
    BY <1>11, SseAssumption DEF UpdateJob, DeleteJob, SseInv, Absent
  <2> QED BY <1>11, <2>1 DEF UpdateJob, DeleteJob, SseInv, StreamsOK
<1>12. ASSUME NEW s \in Streams, OtherConnects(s) PROVE SseInv'
  <2>1. PICK c \in Containers : stream' = [stream EXCEPT ![s] = Open(c)]
    BY <1>12 DEF OtherConnects
  <2>2. StreamsOK'
    BY <1>12, <2>1, Opened, StreamTurns DEF OtherConnects, SseInv
  <2> QED BY <1>12, <2>2 DEF OtherConnects, SseInv
<1> QED BY <1>4, <1>5, <1>6, <1>7, <1>8, <1>9, <1>10, <1>11, <1>12 DEF PageStep, PollTimer, SseWorld

\* Whatever breaks and however the streams share the lists, a stream never asks for
\* an event that is not in its list, nor for a record that is not in its copy
\* (job_events.py, jobs.ts).
THEOREM JobEventsTyped == SseSpec => []SseTypeOK
<1>1. SseInit => SseInv
  <2> SUFFICES ASSUME SseInit PROVE SseInv
    OBVIOUS
  <2>1. <<>> \in Seq(Events) /\ 0 \in 0..Absent /\ Absent \in 0..Absent /\ 0 \in 0..MaxSseFaults
    BY SseAssumption, EmptySeq DEF Absent
  <2>2. StreamsOK
    BY ClosedIsNone DEF SseInit, StreamsOK, InList
  <2> QED BY <2>1, <2>2 DEF SseInit, SseInv, Brokers, JobPages
<1>2. SseInv /\ [SseNext]_sseVars => SseInv'
  <2> SUFFICES ASSUME SseInv, [SseNext]_sseVars PROVE SseInv'
    OBVIOUS
  <2>1. CASE UNCHANGED sseVars
    BY <2>1 DEF sseVars, SseInv, StreamsOK
  <2>2. ASSUME NEW s \in Streams, ServerStep(s) PROVE SseInv'
    <3>1. CASE ListJobs(s)
      BY <3>1, Listed DEF ListJobs, SseInv
    <3>2. CASE MaybePublish(s)
      BY <3>2, Published DEF MaybePublish, SseInv
    <3>3. CASE SendEvent(s)
      BY <3>3, Sent DEF SendEvent, SseInv
    <3> QED BY <2>2, <3>1, <3>2, <3>3 DEF ServerStep
  <2> QED BY <2>1, <2>2, PageTurns DEF SseNext
<1>3. SseInv => SseTypeOK
  <2> SUFFICES ASSUME SseInv PROVE SseTypeOK
    OBVIOUS
  <2>1. ASSUME NEW s \in Streams, stream[s] # Closed
        PROVE  /\ stream[s].at \in {"list", "publish", "send"} /\ stream[s].on \in Containers
               /\ stream[s].cursor \in 0..Len(broker[stream[s].on].events)
               /\ stream[s].copy \in [stream[s].todo -> 0..MaxUpdates]
               /\ stream[s].todo \subseteq SseJobs
    <3>1. stream[s] \in OpenStreams /\ InList(stream[s], broker)
      BY <2>1 DEF SseInv, StreamsOK
    <3>2. stream[s].on \in Containers /\ stream[s].cursor \in Nat
      BY <3>1 DEF OpenStreams
    <3>3. Len(broker[stream[s].on].events) \in Nat
      BY <3>2, LenProperties DEF SseInv, Brokers
    <3> QED BY <2>1, <3>1, <3>2, <3>3 DEF OpenStreams, InList
  <2> QED BY <2>1 DEF SseInv, SseTypeOK, Brokers, JobPages
<1> QED BY <1>1, <1>2, <1>3, PTL DEF SseSpec
=============================================================================
