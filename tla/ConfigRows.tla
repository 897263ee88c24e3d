---------------------------- MODULE ConfigRows -----------------------------
(***************************************************************************)
(* The rows that steer the answers: rag_production_config, of which one    *)
(* row is active and each promotion adds a version, and the presets of the *)
(* evaluation playground.  A promotion is one transaction of three         *)
(* statements at READ COMMITTED: each statement sees what was committed    *)
(* when it started, an UPDATE waits for the transaction that holds its row *)
(* and then looks at the row again, an INSERT waits for a row of the same  *)
(* unique key that is not committed yet.  An edit of a preset reads the    *)
(* row in one transaction and writes all its columns in another.           *)
(***************************************************************************)
EXTENDS Naturals, Sequences

CONSTANTS
  Promoters,     \* requests to POST /rag/config/promote
  Editors,       \* requests to PATCH a preset
  NoRow

ASSUME ConfigAssumption == NoRow \notin Nat

VARIABLES
  config,        \* rag_production_config, the committed rows in the order of commit
  promo,         \* promoter -> what it does next, the version it read, the rows it sees and holds
  preset,        \* one preset: its columns and its version
  edit           \* editor -> what it does next, the row it read and the column it sets

configVars == <<config, promo, preset, edit>>

Columns == {"name", "config", "shared"}

\* a column's value is the editor that set it, or NoRow for the value it was created with
Presets == [value : [Columns -> Editors \cup {NoRow}], version : Nat]

Rows == [version : Nat, active : BOOLEAN]

ConfigTypeOK ==
  /\ config \in Seq(Rows)
  /\ promo \in [Promoters -> [at : {"idle", "version", "update", "lock", "insert", "commit", "over"},
                              version : Nat, sees : Nat, holds : Nat]]
  /\ preset \in Presets
  /\ edit \in [Editors -> [at : {"idle", "read", "over"}, col : Columns, saw : Presets, late : BOOLEAN]]

ConfigInit ==
  /\ config = <<>>
  /\ promo = [p \in Promoters |-> [at |-> "idle", version |-> 0, sees |-> 0, holds |-> 0]]
  /\ preset = [value |-> [c \in Columns |-> NoRow], version |-> 1]
  /\ edit = [e \in Editors |-> [at |-> "idle", col |-> "name", saw |-> preset, late |-> FALSE]]

-----------------------------------------------------------------------------
(***************************************************************************)
(* promote_rag_config.  Row 0 is no row.                                   *)
(***************************************************************************)
Active     == {i \in DOMAIN config : config[i].active}
ActiveRow  == IF Active = {} THEN 0 ELSE CHOOSE i \in Active : TRUE    \* LIMIT 1
MaxVersion == IF config = <<>> THEN 0
              ELSE CHOOSE v \in {config[i].version : i \in DOMAIN config} :
                     \A i \in DOMAIN config : config[i].version <= v

Deactivated(row) ==
  [i \in DOMAIN config |-> IF i = row THEN [config[i] EXCEPT !.active = FALSE] ELSE config[i]]

OnlyPromo == UNCHANGED <<preset, edit>>
Turn(p, r) == promo' = [promo EXCEPT ![p] = r]

\* the configuration is read from the preset or the run first; a source that is
\* not there ends the request
ResolvePromoteConfig(p) ==
  /\ promo[p].at = "idle"
  /\ \E at \in {"version", "over"} : Turn(p, [promo[p] EXCEPT !.at = at])
  /\ UNCHANGED config /\ OnlyPromo

NextVersion(p) ==
  /\ promo[p].at = "version"
  /\ Turn(p, [promo[p] EXCEPT !.at = "update", !.version = MaxVersion + 1])
  /\ UNCHANGED config /\ OnlyPromo

\* UPDATE ... SET is_active = false WHERE is_active: the row the statement sees
StartUpdate(p) ==
  /\ promo[p].at = "update"
  /\ Turn(p, [promo[p] EXCEPT !.at = "lock", !.sees = ActiveRow])
  /\ UNCHANGED config /\ OnlyPromo

\* a slip: the row is deactivated in a transaction of its own
HoldRowCommitted(p) ==
  /\ promo[p].at = "lock"
  /\ config' = Deactivated(promo[p].sees)
  /\ Turn(p, [promo[p] EXCEPT !.at = "insert"])
  /\ OnlyPromo

\* the row is free; it is skipped when it is not active any more
HoldRow(p) ==
  /\ promo[p].at = "lock"
  /\ \A q \in Promoters : promo[p].sees # 0 => promo[q].holds # promo[p].sees
  /\ Turn(p, [promo[p] EXCEPT !.at = "insert",
                              !.holds = IF promo[p].sees \in Active THEN promo[p].sees ELSE 0])
  /\ UNCHANGED config /\ OnlyPromo

\* a slip: no unique index on the active row
InsertUnchecked(p) ==
  /\ promo[p].at = "insert"
  /\ Turn(p, [promo[p] EXCEPT !.at = "commit"])
  /\ UNCHANGED config /\ OnlyPromo

\* the unique index on is_active: an active row of another transaction is waited
\* for, one that is committed makes this transaction roll back
InsertActive(p) ==
  /\ promo[p].at = "insert"
  /\ \A q \in Promoters : promo[q].at # "commit"
  /\ Turn(p, IF Active \subseteq {promo[p].holds} THEN [promo[p] EXCEPT !.at = "commit"]
             ELSE [promo[p] EXCEPT !.at = "over", !.holds = 0])
  /\ UNCHANGED config /\ OnlyPromo

\* with the audit event, which is of the same transaction
CommitPromotion(p) ==
  /\ promo[p].at = "commit"
  /\ config' = Append(Deactivated(promo[p].holds), [version |-> promo[p].version, active |-> TRUE])
  /\ Turn(p, [promo[p] EXCEPT !.at = "over", !.holds = 0])
  /\ OnlyPromo

PromoterDies(p) ==
  /\ promo[p].at \in {"version", "update", "lock", "insert", "commit"}
  /\ Turn(p, [promo[p] EXCEPT !.at = "over", !.holds = 0])
  /\ UNCHANGED config /\ OnlyPromo

-----------------------------------------------------------------------------
(***************************************************************************)
(* update_eval_config_preset, of its owner's requests.                     *)
(***************************************************************************)
FetchPreset(e) ==
  /\ edit[e].at = "idle"
  /\ \E c \in Columns :
       edit' = [edit EXCEPT ![e] = [at |-> "read", col |-> c, saw |-> preset, late |-> FALSE]]
  /\ UNCHANGED <<config, promo, preset>>

Late(e) == [f \in Editors |-> IF f = e THEN [edit[e] EXCEPT !.at = "over"]
                              ELSE [edit[f] EXCEPT !.late = edit[f].at = "read"]]

\* a slip: a column the request does not name gets its default again
WritePresetDefaults(e) ==
  /\ edit[e].at = "read"
  /\ preset' = [value |-> [c \in Columns |-> IF c = edit[e].col THEN e ELSE
                                             IF c = "shared" THEN NoRow ELSE edit[e].saw.value[c]],
                version |-> edit[e].saw.version + 1]
  /\ edit' = Late(e)
  /\ UNCHANGED <<config, promo>>

\* every column is written: the new value of one, what was read of the others
WritePreset(e) ==
  /\ edit[e].at = "read"
  /\ preset' = [value |-> [edit[e].saw.value EXCEPT ![edit[e].col] = e],
                version |-> edit[e].saw.version + 1]
  /\ edit' = Late(e)
  /\ UNCHANGED <<config, promo>>

-----------------------------------------------------------------------------
PromoteStep(p) == \/ ResolvePromoteConfig(p) \/ NextVersion(p) \/ StartUpdate(p) \/ HoldRow(p)
                  \/ InsertActive(p) \/ CommitPromotion(p) \/ PromoterDies(p)

ConfigNext == \/ \E p \in Promoters : PromoteStep(p)
              \/ \E e \in Editors : FetchPreset(e) \/ WritePreset(e)

ConfigSpec == ConfigInit /\ [][ConfigNext]_configVars

-----------------------------------------------------------------------------
(***************************************************************************)
(* What is correct.                                                        *)
(***************************************************************************)

\* However promotions overlap, fail or die half way, who reads the active row sees
\* them as if each happened at once: after the first one there is always one active
\* row and one only, so the chat neither falls back nor depends on which row
\* SELECT ... LIMIT 1 returns (rag_production_config.py 29-50), and a promotion never
\* brings an older row back.
Readers == INSTANCE ActiveConfig WITH active <- Active

PromotionIsAtomic == Readers!PromotionSpec

\* An edit of one column of a preset undoes an edit of another column only when
\* the two overlapped (the row is read and written in two transactions).
EditsOwnColumn ==
  [][\A c \in Columns : preset'.value[c] # preset.value[c] =>
       \E e \in Editors : edit[e].at = "read" /\ (edit[e].col = c \/ edit[e].late)]_configVars
=============================================================================
