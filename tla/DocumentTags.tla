---------------------------- MODULE DocumentTags ----------------------------
(***************************************************************************)
(* The tags of one document and the versions that record them.  A request  *)
(* is one transaction at READ COMMITTED: it deletes the rows it sees,      *)
(* upserts its own, counts the versions and adds one.  A DELETE waits for  *)
(* the transaction that holds a row it sees and then looks at the row      *)
(* again; an INSERT waits for an uncommitted row of the same key.  The     *)
(* batch upsert, and an edit that changes the language, hold the row of    *)
(* the document, which the foreign keys of tags and versions wait for.     *)
(***************************************************************************)
EXTENDS Naturals, Sequences, FiniteSets

CONSTANTS
  TagWriters,    \* requests that write tags or metadata of the document
  Slugs,         \* tags, known by their slug
  Langs,         \* languages
  TagCap,        \* _MAX_TAGS_PER_DOCUMENT, and MAX_DOCUMENT_TAGS
  Origin         \* who wrote the rows there were before

ASSUME TagAssumption == TagCap \in Nat /\ Origin \notin TagWriters

VARIABLES
  tagRows,       \* the committed rows of document_tags, each with the request that inserted it
  lang,          \* the language of the document
  versions,      \* document_versions: what each recorded
  tagger         \* request -> what it does next and what it holds

tagVars == <<tagRows, lang, versions, tagger>>

Row(s, l, w) == [slug |-> s, lang |-> l, by |-> w]
TagRows == [slug : Slugs, lang : Langs, by : TagWriters \cup {Origin}]

\* add and remove are what was asked of a bulk request, final what is to be stored,
\* rows those it has deleted, kept those it has updated; the document was changed by
\* another request since it looked when late
Taggers == [at : {"idle", "doc", "tags", "row", "delete", "lock", "insert", "number", "version",
                  "commit", "over"},
            op : {"patch", "bulk", "batch", "upsert", "meta"},
            add : SUBSET Slugs, remove : SUBSET Slugs, lang : Langs, final : SUBSET Slugs,
            sees : SUBSET TagRows, rows : SUBSET TagRows, kept : SUBSET TagRows,
            number : Nat, late : BOOLEAN]

Starts(at, op, l) == [at |-> at, op |-> op, add |-> {}, remove |-> {}, lang |-> l, final |-> {},
                      sees |-> {}, rows |-> {}, kept |-> {}, number |-> 0, late |-> FALSE]
Over == Starts("over", "patch", CHOOSE l \in Langs : TRUE)

TagTypeOK ==
  /\ tagRows \subseteq TagRows /\ lang \in Langs
  /\ versions \in Seq([lang : Langs, tags : SUBSET Slugs])
  /\ tagger \in [TagWriters -> Taggers]

\* the document as its first upsert left it
TagInit ==
  /\ lang \in Langs
  /\ \E S \in SUBSET Slugs : /\ Cardinality(S) <= TagCap
                             /\ tagRows = {Row(s, lang, Origin) : s \in S}
                             /\ versions = <<[lang |-> lang, tags |-> S]>>
  /\ tagger = [w \in TagWriters |-> [Over EXCEPT !.at = "idle"]]

-----------------------------------------------------------------------------
Shown == {r.slug : r \in {x \in tagRows : x.lang = lang}}      \* get_document_tags
Of(w) == tagger[w]
Becomes(w, r) == tagger' = [tagger EXCEPT ![w] = r]
Unwritten == UNCHANGED <<tagRows, lang, versions>>

\* who holds the row of the document, who shares its key, who holds rows of tags
Past(w, steps) == Of(w).at \in steps
HoldsRow(w) == Of(w).op \in {"batch", "upsert", "meta"}
                 /\ Past(w, {"delete", "lock", "insert", "number", "version", "commit"})
HoldsKey(w) == HoldsRow(w) /\ (Of(w).op # "meta" \/ Of(w).lang # lang)
SharesKey(w) == Past(w, {"number", "version", "commit"}) /\ (Of(w).final # {} \/ Of(w).at = "commit")
Holding(w) == Of(w).rows \cup Of(w).kept
Inserted(w) == IF Past(w, {"number", "version", "commit"})
               THEN {<<s, Of(w).lang>> : s \in Of(w).final} ELSE {}
RowKeys(rows) == {<<r.slug, r.lang>> : r \in rows}

\* validate_document_tag_count, or max_length of the request; the language is read
StartPatch(w) ==
  /\ Of(w).at = "idle"
  /\ \E S \in SUBSET Slugs : /\ Cardinality(S) <= TagCap
                             /\ Becomes(w, [Starts("delete", "patch", lang) EXCEPT !.final = S])
  /\ Unwritten

StartBulk(w) ==
  /\ Of(w).at = "idle"
  /\ \E A, R \in SUBSET Slugs :
       /\ A # {} \/ R # {}
       /\ Becomes(w, [Starts("tags", "bulk", lang) EXCEPT !.add = A, !.remove = R])
  /\ Unwritten

\* the tags of the language that was read, without those to remove and with those to add
ReadTags(w) ==
  /\ Of(w).at = "tags"
  /\ LET current == {r.slug : r \in {x \in tagRows : x.lang = Of(w).lang}}
         final == (current \ Of(w).remove) \cup Of(w).add
     IN Becomes(w, IF Cardinality(final) > TagCap THEN Over
                   ELSE [Of(w) EXCEPT !.at = "delete", !.final = final])
  /\ Unwritten

\* a document with tags, or without; its row is found by its url and language
StartBatch(w) ==
  /\ Of(w).at = "idle"
  /\ \/ Becomes(w, Starts("row", "upsert", lang))
     \/ \E S \in SUBSET Slugs : /\ Cardinality(S) <= TagCap
                                /\ Becomes(w, [Starts("row", "batch", lang) EXCEPT !.final = S])
  /\ Unwritten

\* a request without a language keeps the one that was read
StartMeta(w) ==
  /\ Of(w).at = "idle"
  /\ \E l \in Langs : Becomes(w, Starts("row", "meta", l))
  /\ Unwritten

\* an upsert that finds no row of its language any more makes another document
LockRow(w) ==
  /\ Of(w).at = "row"
  /\ \A q \in TagWriters \ {w} :
       /\ ~HoldsRow(q)
       /\ Of(w).op # "meta" \/ Of(w).lang # lang => ~SharesKey(q)
  /\ Becomes(w, IF Of(w).op # "meta" /\ Of(w).lang # lang THEN Over
                ELSE [Of(w) EXCEPT !.at = IF Of(w).op = "batch" THEN "delete" ELSE "number"])
  /\ Unwritten

StartDelete(w) ==
  /\ Of(w).at = "delete"
  /\ Becomes(w, [Of(w) EXCEPT !.at = "lock", !.sees = tagRows])
  /\ Unwritten

\* a slip: no tags to store, nothing to delete
DeleteTagsIfAny(w) ==
  /\ Of(w).at = "lock"
  /\ \A q \in TagWriters \ {w} : Of(w).sees \cap Holding(q) = {}
  /\ LET gone == IF Of(w).final = {} THEN {} ELSE Of(w).sees \cap tagRows
     IN Becomes(w, [Of(w) EXCEPT !.at = "insert", !.rows = gone, !.sees = {}])
  /\ Unwritten

\* the rows that are still there
DeleteTags(w) ==
  /\ Of(w).at = "lock"
  /\ \A q \in TagWriters \ {w} : Of(w).sees \cap Holding(q) = {}
  /\ Becomes(w, [Of(w) EXCEPT !.at = "insert", !.rows = Of(w).sees \cap tagRows, !.sees = {}])
  /\ Unwritten

\* a row of the same key that was committed since is updated
InsertTags(w) ==
  /\ Of(w).at = "insert"
  /\ LET keys == {<<s, Of(w).lang>> : s \in Of(w).final}
     IN /\ \A q \in TagWriters \ {w} :
             /\ Of(w).final # {} => ~HoldsKey(q)
             /\ keys \cap (Inserted(q) \cup RowKeys(Holding(q))) = {}
        /\ Becomes(w, [Of(w) EXCEPT !.at = "number",
                         !.kept = {r \in tagRows \ Of(w).rows : <<r.slug, r.lang>> \in keys}])
  /\ Unwritten

\* MAX(version_number) of what is committed
NumberVersion(w) ==
  /\ Of(w).at = "number"
  /\ Becomes(w, [Of(w) EXCEPT !.at = "version", !.number = Len(versions) + 1])
  /\ Unwritten

\* the number is taken: the transaction is rolled back
InsertVersion(w) ==
  /\ Of(w).at = "version"
  /\ \A q \in TagWriters \ {w} :
       ~HoldsKey(q) /\ ~(Of(q).at = "commit" /\ Of(q).number = Of(w).number)
  /\ Becomes(w, IF Of(w).number <= Len(versions) THEN Over ELSE [Of(w) EXCEPT !.at = "commit"])
  /\ Unwritten

Stored(w) == {Row(s, Of(w).lang, w) : s \in {x \in Of(w).final :
                                              <<x, Of(w).lang>> \notin RowKeys(Of(w).kept)}}

\* what was read or deleted is not what is there any more
LooksAway(q) ==
  \/ Of(q).at \notin {"idle", "row", "over"} /\ lang' # lang
  \/ /\ tagRows' # tagRows
     /\ \/ Of(q).at \in {"lock", "insert", "number", "version", "commit"}
        \/ Of(q).at = "delete" /\ Of(q).op = "bulk"

\* the version of a request that sets no tags records none of them
Commit(w) ==
  /\ Of(w).at = "commit"
  /\ tagRows' = (tagRows \ Of(w).rows) \cup Stored(w)
  /\ lang' = IF Of(w).op = "meta" THEN Of(w).lang ELSE lang
  /\ versions' = Append(versions, [lang |-> Of(w).lang, tags |-> Of(w).final])
  /\ tagger' = [q \in TagWriters |-> IF q = w THEN Over
                                    ELSE [Of(q) EXCEPT !.late = @ \/ LooksAway(q)]]

WriterDies(w) ==
  /\ Of(w).at \notin {"idle", "over"}
  /\ Becomes(w, Over)
  /\ Unwritten

-----------------------------------------------------------------------------
TagStep(w) == \/ StartPatch(w) \/ StartBulk(w) \/ ReadTags(w) \/ StartBatch(w) \/ StartMeta(w)
              \/ LockRow(w) \/ StartDelete(w) \/ DeleteTags(w) \/ InsertTags(w)
              \/ NumberVersion(w) \/ InsertVersion(w) \/ Commit(w) \/ WriterDies(w)

TagNext == \E w \in TagWriters : TagStep(w)

TagSpec == TagInit /\ [][TagNext]_tagVars

-----------------------------------------------------------------------------
(***************************************************************************)
(* What is correct.                                                        *)
(***************************************************************************)

\* A request that sets tags leaves the tags it was asked for, and no more of them
\* than the cap: a bulk request those that were shown, without those it names to
\* remove and with those it adds.  Only a change that was committed after the request
\* had read or deleted can add to them or be undone (the replacement is a DELETE and
\* INSERTs without a lock on the document, tags.py 40-84).
TagsAsAsked ==
  [][\A w \in TagWriters :
       Of(w).at = "commit" /\ versions' # versions /\ tagger'[w] = Over
         /\ Of(w).op \in {"patch", "bulk", "batch"} /\ ~Of(w).late
       => Shown' = IF Of(w).op = "bulk" THEN (Shown \ Of(w).remove) \cup Of(w).add
                   ELSE Of(w).final]_tagVars
=============================================================================
