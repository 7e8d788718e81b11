------------------------- MODULE EventManifestProofs -------------------------
(***************************************************************************)
(* For any number of collectors, publishers and revalidations, of changes  *)
(* of the sources and of edits of the files: the manifests implement the   *)
(* archive (only a link publishes), a manifest says what held together at  *)
(* one moment, and nobody is turned down when nothing but prices changed.  *)
(* The last two rest on what a job knows at each step of its program: the  *)
(* versions of a source or a file grow and never come back, so what a job  *)
(* finds equal before and after a moment was equal at that moment.         *)
(***************************************************************************)
EXTENDS EventManifest, TLAPS

\* What a link makes of the directory it is made in.
LEMMA LinkAdds ==
    ASSUME NEW shelf, NEW name, NEW content, name \notin DOMAIN shelf
    PROVE  Pairs(Extended(shelf, name, content)) = Pairs(shelf) \cup {<<name, content>>}
BY DEF Pairs, Extended

\* A step leaves the manifests alone or links one.
Registers == \E name, content : manifests' = Linked(manifests, name, content)

LEMMA OnlyLinksChange == [Next]_vars => manifests' = manifests \/ \E p \in Procs : Link(p)
<1> SUFFICES ASSUME [Next]_vars PROVE manifests' = manifests \/ \E p \in Procs : Link(p)
    OBVIOUS
<1>1. ASSUME NEW p \in Procs, (\E j \in Jobs : Start(p, j)) \/ Unanswered(p)
      PROVE  manifests' = manifests
    BY <1>1 DEF Start, Unanswered, files
<1>2. ASSUME NEW p \in Procs, Fetch(p) \/ Look(p) \/ Open(p) \/ Clear(p) PROVE manifests' = manifests
    BY <1>2 DEF Fetch, Look, Open, Clear, files
<1>3. ASSUME NEW p \in Procs, Reopen(p) \/ Agree(p) \/ Keep(p) \/ Ask(p) \/ Same(p)
      PROVE  manifests' = manifests
    BY <1>3 DEF Reopen, Agree, Keep, Ask, Same, Check, Fail, files
<1>4. CASE \/ \E i \in Items : Change(i)
           \/ Quote
           \/ \E n \in DOMAIN evidence : EditEvidence(n)
           \/ \E n \in DOMAIN bundles : EditBundle(n)
           \/ UNCHANGED vars
    BY <1>4 DEF Change, Quote, EditEvidence, EditBundle, vars, files
<1> QED
    BY <1>1, <1>2, <1>3, <1>4 DEF Next

LEMMA OnlyLinksPublish == [Next]_vars => manifests' = manifests \/ Registers
<1>1. ASSUME NEW p \in Procs, Link(p) PROVE manifests' = manifests \/ Registers
    <2>1. CASE Fail(p, "occupied")
        BY <2>1 DEF Fail
    <2>2. CASE manifests' = IF Here(p).item = "manifest"
                            THEN Linked(Shelf(p), target[p], Content(p)) ELSE manifests
        <3>1. Here(p).item = "manifest" => Shelf(p) = manifests
            BY DEF Shelf, Items, Roster, Page, Document
        <3> QED
            BY <2>2, <3>1 DEF Registers
    <2> QED
        BY <1>1, <2>1, <2>2 DEF Link
<1> QED
    BY <1>1, OnlyLinksChange

-----------------------------------------------------------------------------
\* What is published under a name stays there and nothing else comes there,
\* whoever publishes at the same time and whatever changes on the way.
THEOREM Refinement == Spec => ImplementsArchive
<1>1. Init => Registered!Init
    BY DEF Init, Registered!Init, Pairs
<1>2. [Next]_vars => [Registered!Next]_(Pairs(manifests))
    <2> SUFFICES ASSUME [Next]_vars, Pairs(manifests') # Pairs(manifests) PROVE Registered!Next
        OBVIOUS
    <2>1. PICK name, content : manifests' = Linked(manifests, name, content)
        BY OnlyLinksPublish DEF Registers
    <2> DEFINE h == <<name, content>>
    <2>2. name \notin DOMAIN manifests /\ manifests' = Extended(manifests, name, content)
        BY <2>1 DEF Linked
    <2>3. Pairs(manifests') = Pairs(manifests) \cup {h}
        BY <2>2, LinkAdds
    <2>4. \A other \in Pairs(manifests) : other[1] # h[1]
        BY <2>2 DEF Pairs
    <2>5. h \in Pairs(manifests') \ Pairs(manifests)
        BY <2>3, <2>4
    <2> QED
        BY <2>3, <2>4, <2>5 DEF Registered!Next, Registered!Add
<1> QED
    BY <1>1, <1>2, PTL DEF Spec, ImplementsArchive, Registered!Spec

-----------------------------------------------------------------------------
\* Programs

\* A concatenation has the steps of its parts.
Joins(r, s, t) ==
    /\ Len(r) = Len(s) + Len(t)
    /\ \A k \in 1..Len(s) : r[k] = s[k]
    /\ \A k \in 1..Len(t) : r[Len(s) + k] = t[k]

LEMMA Concatenated ==
    ASSUME NEW S, NEW s \in Seq(S), NEW t \in Seq(S)
    PROVE  s \o t \in Seq(S) /\ Joins(s \o t, s, t)
BY DEF Joins

Verbs == {"fetch", "look", "link", "open", "reopen", "agree", "keep", "ask", "same", "clear"}
Steps == {Do(what, item) : what \in Verbs, item \in Items \cup {"draft", "bundle", "manifest"}}

LEMMA StepsAreMade ==
    ASSUME NEW what \in Verbs, NEW item \in Items \cup {"draft", "bundle", "manifest"}
    PROVE  Do(what, item) \in Steps
BY DEF Steps

LEMMA BuildSteps ==
    /\ Build \in Seq(Steps) /\ Len(Build) = 8
    /\ Build[1] = Do("agree", Roster) /\ Build[2] = Do("agree", Page)
    /\ Build[3] = Do("agree", Document) /\ Build[4] = Do("keep", Page)
    /\ Build[5] = Do("keep", Page) /\ Build[6] = Do("keep", Document)
    /\ Build[7] = Do("agree", Roster) /\ Build[8] = Do("agree", Document)
BY StepsAreMade DEF Build, Verbs, Items

LEMMA PublishSteps ==
    LET P == Program("publish") IN
    /\ Len(P) = 16
    /\ P[1] = Do("open", "bundle") /\ P[2] = Do("reopen", "bundle")
    /\ P[3] = Do("agree", Roster) /\ P[4] = Do("agree", Page) /\ P[5] = Do("agree", Document)
    /\ P[6] = Do("keep", Page) /\ P[7] = Do("keep", Page) /\ P[8] = Do("keep", Document)
    /\ P[9] = Do("agree", Roster) /\ P[10] = Do("agree", Document)
    /\ P[11] = Do("look", "manifest") /\ P[12] = Do("same", "bundle")
    /\ P[13] = Do("keep", Roster) /\ P[14] = Do("keep", Page) /\ P[15] = Do("keep", Document)
    /\ P[16] = Do("link", "manifest")
<1> DEFINE A == <<Do("open", "bundle"), Do("reopen", "bundle")>>
           C == <<Do("look", "manifest"), Do("same", "bundle"), Do("keep", Roster),
                  Do("keep", Page), Do("keep", Document), Do("link", "manifest")>>
<1>1. A \in Seq(Steps) /\ Len(A) = 2 /\ A[1] = Do("open", "bundle") /\ A[2] = Do("reopen", "bundle")
    BY StepsAreMade DEF Verbs, Items
<1>2. /\ C \in Seq(Steps) /\ Len(C) = 6
      /\ C[1] = Do("look", "manifest") /\ C[2] = Do("same", "bundle") /\ C[3] = Do("keep", Roster)
      /\ C[4] = Do("keep", Page) /\ C[5] = Do("keep", Document) /\ C[6] = Do("link", "manifest")
    BY StepsAreMade DEF Verbs, Items
<1>3. Program("publish") = (A \o Build) \o C
    BY DEF Program
<1> HIDE DEF A, C
<1>4. A \o Build \in Seq(Steps) /\ Joins(A \o Build, A, Build)
    BY <1>1, BuildSteps, Concatenated
<1>5. Joins((A \o Build) \o C, A \o Build, C)
    BY <1>2, <1>4, Concatenated
<1>6. \E X : Joins(X, A, Build) /\ Joins(Program("publish"), X, C)
    BY <1>3, <1>4, <1>5
<1>7. PICK X : Joins(X, A, Build) /\ Joins(Program("publish"), X, C)
    BY <1>6
<1>8. /\ Len(X) = 10
      /\ X[1] = A[1] /\ X[2] = A[2] /\ X[3] = Build[1] /\ X[4] = Build[2] /\ X[5] = Build[3]
      /\ X[6] = Build[4] /\ X[7] = Build[5] /\ X[8] = Build[6] /\ X[9] = Build[7]
      /\ X[10] = Build[8]
    BY <1>1, <1>7, BuildSteps DEF Joins
<1> DEFINE P == Program("publish")
<1> HIDE DEF P
<1>9. /\ Len(P) = 16
      /\ P[1] = X[1] /\ P[2] = X[2] /\ P[3] = X[3] /\ P[4] = X[4] /\ P[5] = X[5]
      /\ P[6] = X[6] /\ P[7] = X[7] /\ P[8] = X[8] /\ P[9] = X[9] /\ P[10] = X[10]
      /\ P[11] = C[1] /\ P[12] = C[2] /\ P[13] = C[3] /\ P[14] = C[4] /\ P[15] = C[5]
      /\ P[16] = C[6]
    <2>1. Joins(P, X, C)
        BY <1>7 DEF P
    <2> QED
        BY <1>2, <1>8, <2>1 DEF Joins
<1>10. /\ Len(P) = 16
       /\ P[1] = Do("open", "bundle") /\ P[2] = Do("reopen", "bundle")
       /\ P[3] = Do("agree", Roster) /\ P[4] = Do("agree", Page) /\ P[5] = Do("agree", Document)
       /\ P[6] = Do("keep", Page) /\ P[7] = Do("keep", Page) /\ P[8] = Do("keep", Document)
       /\ P[9] = Do("agree", Roster) /\ P[10] = Do("agree", Document)
       /\ P[11] = Do("look", "manifest") /\ P[12] = Do("same", "bundle")
       /\ P[13] = Do("keep", Roster) /\ P[14] = Do("keep", Page) /\ P[15] = Do("keep", Document)
       /\ P[16] = Do("link", "manifest")
    BY <1>1, <1>2, <1>8, <1>9, BuildSteps
<1> QED
    BY <1>10 DEF P

LEMMA RevalidateSteps ==
    LET P == Program("revalidate") IN
    /\ Len(P) = 6 /\ P[1] = Do("open", "manifest")
    /\ P[2] = Do("agree", Roster) /\ P[3] = Do("agree", Roster) /\ P[4] = Do("ask", Page)
    /\ P[5] = Do("agree", Document) /\ P[6] = Do("same", "manifest")
BY DEF Program

\* A collection stores the items in its first nine steps, and the bundle later.
LEMMA CollectSteps ==
    LET P == Program("collect") IN
    /\ Len(P) = 23
    /\ P[1] = Do("fetch", Roster) /\ P[2] = Do("look", Roster) /\ P[3] = Do("link", Roster)
    /\ P[4] = Do("fetch", Page) /\ P[5] = Do("look", Page) /\ P[6] = Do("link", Page)
    /\ P[7] = Do("fetch", Document) /\ P[8] = Do("look", Document) /\ P[9] = Do("link", Document)
    /\ P[10] = Do("look", "draft") /\ P[11] = Do("link", "draft") /\ P[12] = Do("reopen", "draft")
    /\ P[13] = Build[1] /\ P[14] = Build[2] /\ P[15] = Build[3] /\ P[16] = Build[4]
    /\ P[17] = Build[5] /\ P[18] = Build[6] /\ P[19] = Build[7] /\ P[20] = Build[8]
    /\ P[21] = Do("look", "bundle") /\ P[22] = Do("link", "bundle") /\ P[23] = Do("clear", "draft")
<1> DEFINE R == Store(Roster)
           Q == Store(Page)
           D == Store(Document)
           E == <<Do("look", "draft"), Do("link", "draft"), Do("reopen", "draft")>>
           F == <<Do("look", "bundle"), Do("link", "bundle"), Do("clear", "draft")>>
           P == Program("collect")
<1>1. \A i \in Items : /\ Store(i) \in Seq(Steps) /\ Len(Store(i)) = 3
                       /\ Store(i)[1] = Do("fetch", i) /\ Store(i)[2] = Do("look", i)
                       /\ Store(i)[3] = Do("link", i)
    BY StepsAreMade DEF Store, Verbs
<1>2. /\ R \in Seq(Steps) /\ Len(R) = 3
      /\ R[1] = Do("fetch", Roster) /\ R[2] = Do("look", Roster) /\ R[3] = Do("link", Roster)
      /\ Q \in Seq(Steps) /\ Len(Q) = 3
      /\ Q[1] = Do("fetch", Page) /\ Q[2] = Do("look", Page) /\ Q[3] = Do("link", Page)
      /\ D \in Seq(Steps) /\ Len(D) = 3
      /\ D[1] = Do("fetch", Document) /\ D[2] = Do("look", Document) /\ D[3] = Do("link", Document)
    BY <1>1 DEF Items
<1>3. /\ E \in Seq(Steps) /\ Len(E) = 3
      /\ E[1] = Do("look", "draft") /\ E[2] = Do("link", "draft") /\ E[3] = Do("reopen", "draft")
    BY StepsAreMade DEF Verbs, Items
<1>4. /\ F \in Seq(Steps) /\ Len(F) = 3
      /\ F[1] = Do("look", "bundle") /\ F[2] = Do("link", "bundle") /\ F[3] = Do("clear", "draft")
    BY StepsAreMade DEF Verbs, Items
<1>5. P = ((((R \o Q) \o D) \o E) \o Build) \o F
    BY DEF Program
<1> HIDE DEF R, Q, D, E, F, P
<1>6. R \o Q \in Seq(Steps) /\ Joins(R \o Q, R, Q)
    BY <1>2, Concatenated
<1>7. (R \o Q) \o D \in Seq(Steps) /\ Joins((R \o Q) \o D, R \o Q, D)
    BY <1>2, <1>6, Concatenated
<1>8. ((R \o Q) \o D) \o E \in Seq(Steps) /\ Joins(((R \o Q) \o D) \o E, (R \o Q) \o D, E)
    BY <1>3, <1>7, Concatenated
<1>9. /\ (((R \o Q) \o D) \o E) \o Build \in Seq(Steps)
      /\ Joins((((R \o Q) \o D) \o E) \o Build, ((R \o Q) \o D) \o E, Build)
    BY <1>8, BuildSteps, Concatenated
<1>10. Joins(P, (((R \o Q) \o D) \o E) \o Build, F)
    BY <1>4, <1>5, <1>9, Concatenated
<1>11. \E S1, S2, S3, S4 : /\ Joins(S1, R, Q) /\ Joins(S2, S1, D) /\ Joins(S3, S2, E)
                           /\ Joins(S4, S3, Build) /\ Joins(P, S4, F)
    BY <1>6, <1>7, <1>8, <1>9, <1>10
<1>12. PICK S1, S2, S3, S4 : /\ Joins(S1, R, Q) /\ Joins(S2, S1, D) /\ Joins(S3, S2, E)
                             /\ Joins(S4, S3, Build) /\ Joins(P, S4, F)
    BY <1>11
<1>13. /\ Len(S1) = 6 /\ S1[1] = R[1] /\ S1[2] = R[2] /\ S1[3] = R[3]
       /\ S1[4] = Q[1] /\ S1[5] = Q[2] /\ S1[6] = Q[3]
    BY <1>2, <1>12 DEF Joins
<1>14. /\ Len(S2) = 9 /\ S2[1] = S1[1] /\ S2[2] = S1[2] /\ S2[3] = S1[3]
       /\ S2[4] = S1[4] /\ S2[5] = S1[5] /\ S2[6] = S1[6]
       /\ S2[7] = D[1] /\ S2[8] = D[2] /\ S2[9] = D[3]
    <2>1. Joins(S2, S1, D)
        BY <1>12
    <2> QED
        BY <1>2, <1>13, <2>1 DEF Joins
<1>15. /\ Len(S3) = 12 /\ \A k \in 1..9 : S3[k] = S2[k]
       /\ S3[10] = E[1] /\ S3[11] = E[2] /\ S3[12] = E[3]
    <2>1. Joins(S3, S2, E)
        BY <1>12
    <2> QED
        BY <1>3, <1>14, <2>1 DEF Joins
<1>16. /\ Len(S4) = 20 /\ \A k \in 1..12 : S4[k] = S3[k]
       /\ S4[13] = Build[1] /\ S4[14] = Build[2] /\ S4[15] = Build[3] /\ S4[16] = Build[4]
       /\ S4[17] = Build[5] /\ S4[18] = Build[6] /\ S4[19] = Build[7] /\ S4[20] = Build[8]
    <2>1. Joins(S4, S3, Build)
        BY <1>12
    <2> QED
        BY BuildSteps, <1>15, <2>1 DEF Joins
<1>17. /\ Len(P) = 23 /\ \A k \in 1..20 : P[k] = S4[k]
       /\ P[21] = F[1] /\ P[22] = F[2] /\ P[23] = F[3]
    <2>1. Joins(P, S4, F)
        BY <1>12
    <2> QED
        BY <1>4, <1>16, <2>1 DEF Joins
<1>18. \A k \in 1..9 : P[k] = S2[k]
    BY <1>15, <1>16, <1>17
<1>19. /\ P[10] = S3[10] /\ P[11] = S3[11] /\ P[12] = S3[12]
    BY <1>16, <1>17
<1>20. /\ P[13] = Build[1] /\ P[14] = Build[2] /\ P[15] = Build[3] /\ P[16] = Build[4]
       /\ P[17] = Build[5] /\ P[18] = Build[6] /\ P[19] = Build[7] /\ P[20] = Build[8]
    BY <1>16, <1>17
<1>21. /\ P[1] = R[1] /\ P[2] = R[2] /\ P[3] = R[3] /\ P[4] = Q[1] /\ P[5] = Q[2]
       /\ P[6] = Q[3] /\ P[7] = D[1] /\ P[8] = D[2] /\ P[9] = D[3]
    BY <1>13, <1>14, <1>18
<1> QED
    BY <1>2, <1>3, <1>4, <1>15, <1>17, <1>19, <1>20, <1>21 DEF P

\* Where a job of each kind is when it is about to do something.
LEMMA PlacesOfPublish ==
    ASSUME NEW p, job[p] = "publish", step[p] \in 1..Len(Program(job[p]))
    PROVE  /\ step[p] \in 1..16 /\ Len(Program(job[p])) = 16
           /\ At(p, "open") => step[p] = 1
           /\ At(p, "reopen") => step[p] = 2
           /\ At(p, "agree") => \/ step[p] \in {3, 9} /\ Here(p).item = Roster
                                \/ step[p] = 4 /\ Here(p).item = Page
                                \/ step[p] \in {5, 10} /\ Here(p).item = Document
           /\ At(p, "keep") => \/ step[p] = 13 /\ Here(p).item = Roster
                               \/ step[p] \in {6, 7, 14} /\ Here(p).item = Page
                               \/ step[p] \in {8, 15} /\ Here(p).item = Document
           /\ At(p, "look") => step[p] = 11 /\ Here(p).item = "manifest"
           /\ At(p, "same") => step[p] = 12
           /\ At(p, "link") => step[p] = 16 /\ Here(p).item = "manifest"
           /\ ~At(p, "fetch") /\ ~At(p, "ask") /\ ~At(p, "clear")
<1> DEFINE P == Program("publish")
<1>1. step[p] \in 1..16 /\ Len(Program(job[p])) = 16 /\ Here(p) = P[step[p]]
    BY PublishSteps DEF Here
<1>2. \A verb : At(p, verb) <=> P[step[p]].do = verb
    BY <1>1 DEF At
<1> HIDE DEF P
<1>3. /\ P[1] = Do("open", "bundle") /\ P[2] = Do("reopen", "bundle")
      /\ P[3] = Do("agree", Roster) /\ P[4] = Do("agree", Page) /\ P[5] = Do("agree", Document)
      /\ P[6] = Do("keep", Page) /\ P[7] = Do("keep", Page) /\ P[8] = Do("keep", Document)
      /\ P[9] = Do("agree", Roster) /\ P[10] = Do("agree", Document)
      /\ P[11] = Do("look", "manifest") /\ P[12] = Do("same", "bundle")
      /\ P[13] = Do("keep", Roster) /\ P[14] = Do("keep", Page) /\ P[15] = Do("keep", Document)
      /\ P[16] = Do("link", "manifest")
    BY PublishSteps DEF P
<1>4. \/ step[p] = 1 /\ Here(p).do = "open" /\ Here(p).item = "bundle"
      \/ step[p] = 2 /\ Here(p).do = "reopen" /\ Here(p).item = "bundle"
      \/ step[p] \in {3, 9} /\ Here(p).do = "agree" /\ Here(p).item = Roster
      \/ step[p] = 4 /\ Here(p).do = "agree" /\ Here(p).item = Page
      \/ step[p] \in {5, 10} /\ Here(p).do = "agree" /\ Here(p).item = Document
      \/ step[p] \in {6, 7, 14} /\ Here(p).do = "keep" /\ Here(p).item = Page
      \/ step[p] \in {8, 15} /\ Here(p).do = "keep" /\ Here(p).item = Document
      \/ step[p] = 11 /\ Here(p).do = "look" /\ Here(p).item = "manifest"
      \/ step[p] = 12 /\ Here(p).do = "same" /\ Here(p).item = "bundle"
      \/ step[p] = 13 /\ Here(p).do = "keep" /\ Here(p).item = Roster
      \/ step[p] = 16 /\ Here(p).do = "link" /\ Here(p).item = "manifest"
    <2>1. CASE step[p] \in 1..4
        <3>1. /\ P[1] = Do("open", "bundle") /\ P[2] = Do("reopen", "bundle")
              /\ P[3] = Do("agree", Roster) /\ P[4] = Do("agree", Page)
            BY <1>3
        <3> QED
            BY <1>1, <2>1, <3>1 DEF Do
    <2>2. CASE step[p] \in 5..8
        <3>1. /\ P[5] = Do("agree", Document) /\ P[6] = Do("keep", Page)
              /\ P[7] = Do("keep", Page) /\ P[8] = Do("keep", Document)
            BY <1>3
        <3> QED
            BY <1>1, <2>2, <3>1 DEF Do
    <2>3. CASE step[p] \in 9..12
        <3>1. /\ P[9] = Do("agree", Roster) /\ P[10] = Do("agree", Document)
              /\ P[11] = Do("look", "manifest") /\ P[12] = Do("same", "bundle")
            BY <1>3
        <3> QED
            BY <1>1, <2>3, <3>1 DEF Do
    <2>4. CASE step[p] \in 13..16
        <3>1. /\ P[13] = Do("keep", Roster) /\ P[14] = Do("keep", Page)
              /\ P[15] = Do("keep", Document) /\ P[16] = Do("link", "manifest")
            BY <1>3
        <3> QED
            BY <1>1, <2>4, <3>1 DEF Do
    <2> QED
        BY <1>1, <2>1, <2>2, <2>3, <2>4
<1> QED
    BY <1>1, <1>4 DEF At

LEMMA PlacesOfRevalidate ==
    ASSUME NEW p, job[p] = "revalidate", step[p] \in 1..Len(Program(job[p]))
    PROVE  /\ step[p] \in 1..6 /\ Len(Program(job[p])) = 6
           /\ At(p, "open") => step[p] = 1
           /\ At(p, "agree") => step[p] > 1 /\ Here(p).item \in Items
           /\ At(p, "ask") => step[p] > 1 /\ Here(p).item \in Items
           /\ At(p, "same") => step[p] > 1
           /\ ~At(p, "fetch") /\ ~At(p, "look") /\ ~At(p, "link") /\ ~At(p, "reopen")
           /\ ~At(p, "keep") /\ ~At(p, "clear")
<1> DEFINE P == Program("revalidate")
<1>1. step[p] \in 1..6 /\ Len(Program(job[p])) = 6 /\ Here(p) = P[step[p]]
    BY RevalidateSteps DEF Here
<1>2. \A verb : At(p, verb) <=> P[step[p]].do = verb
    BY <1>1 DEF At
<1> HIDE DEF P
<1>3. /\ P[1] = Do("open", "manifest")
      /\ P[2] = Do("agree", Roster) /\ P[3] = Do("agree", Roster) /\ P[4] = Do("ask", Page)
      /\ P[5] = Do("agree", Document) /\ P[6] = Do("same", "manifest")
    BY RevalidateSteps DEF P
<1> QED
    BY <1>1, <1>2, <1>3 DEF Do, Items

LEMMA PlacesOfCollect ==
    ASSUME NEW p, job[p] = "collect", step[p] \in 1..Len(Program(job[p]))
    PROVE  /\ step[p] \in 1..23 /\ Len(Program(job[p])) = 23
           /\ At(p, "fetch") => step[p] \in {1, 4, 7} /\ Here(p).item \in Items
           /\ At(p, "look") => \/ step[p] = 2 /\ Here(p).item = Roster
                               \/ step[p] = 5 /\ Here(p).item = Page
                               \/ step[p] = 8 /\ Here(p).item = Document
                               \/ step[p] > 9 /\ Here(p).item \in {"draft", "bundle"}
           /\ At(p, "link") => \/ step[p] = 3 /\ Here(p).item = Roster
                               \/ step[p] = 6 /\ Here(p).item = Page
                               \/ step[p] = 9 /\ Here(p).item = Document
                               \/ step[p] > 9 /\ Here(p).item \in {"draft", "bundle"}
           /\ At(p, "agree") => step[p] > 9 /\ Here(p).item \in Items
           /\ At(p, "keep") => step[p] > 9
           /\ At(p, "reopen") => step[p] > 9
           /\ At(p, "clear") => step[p] > 9
           /\ ~At(p, "open") /\ ~At(p, "ask") /\ ~At(p, "same")
<1> DEFINE P == Program("collect")
<1>1. step[p] \in 1..23 /\ Len(Program(job[p])) = 23 /\ Here(p) = P[step[p]]
    BY CollectSteps DEF Here
<1>2. \A verb : At(p, verb) <=> P[step[p]].do = verb
    BY <1>1 DEF At
<1> HIDE DEF P
<1>3. /\ P[1] = Do("fetch", Roster) /\ P[2] = Do("look", Roster) /\ P[3] = Do("link", Roster)
    BY CollectSteps DEF P
<1>4. /\ P[4] = Do("fetch", Page) /\ P[5] = Do("look", Page) /\ P[6] = Do("link", Page)
    BY CollectSteps DEF P
<1>9. /\ P[7] = Do("fetch", Document) /\ P[8] = Do("look", Document) /\ P[9] = Do("link", Document)
    BY CollectSteps DEF P
<1>10. /\ P[10] = Do("look", "draft") /\ P[11] = Do("link", "draft") /\ P[12] = Do("reopen", "draft")
    BY CollectSteps DEF P
<1>11. /\ P[21] = Do("look", "bundle") /\ P[22] = Do("link", "bundle") /\ P[23] = Do("clear", "draft")
    BY CollectSteps DEF P
<1>5. \A k \in 13..20 : P[k].do \in {"agree", "keep"} /\ P[k].item \in Items
    <2>1. /\ P[13] = Do("agree", Roster) /\ P[14] = Do("agree", Page) /\ P[15] = Do("agree", Document)
          /\ P[16] = Do("keep", Page) /\ P[17] = Do("keep", Page) /\ P[18] = Do("keep", Document)
          /\ P[19] = Do("agree", Roster) /\ P[20] = Do("agree", Document)
        BY CollectSteps, BuildSteps DEF P
    <2> QED
        BY <2>1 DEF Do, Items
<1>6. CASE step[p] \in 1..3
    BY <1>1, <1>2, <1>3, <1>6 DEF Do, Items
<1>7. CASE step[p] \in 4..6
    BY <1>1, <1>2, <1>4, <1>7 DEF Do, Items
<1>8. CASE step[p] \in 7..9
    BY <1>1, <1>2, <1>8, <1>9 DEF Do, Items
<1>12. CASE step[p] \in 10..12
    BY <1>1, <1>2, <1>10, <1>12 DEF Do
<1>13. CASE step[p] \in 21..23
    BY <1>1, <1>2, <1>11, <1>13 DEF Do
<1>14. CASE step[p] \in 13..20
    <2>1. Here(p).do \in {"agree", "keep"} /\ Here(p).item \in Items
        BY <1>1, <1>5, <1>14
    <2> QED
        BY <1>1, <1>14, <2>1 DEF At
<1> QED
    BY <1>1, <1>6, <1>7, <1>8, <1>12, <1>13, <1>14

-----------------------------------------------------------------------------
\* The invariant: versions grow and never come back, so that what is the same
\* before and after a moment was the same at that moment.

IsPlan(b) == b = [paths |-> b.paths, rev |-> b.rev] /\ b.rev \in Int
IsSeq(s)  == s \in Seq({s[k] : k \in DOMAIN s})

TypeInv ==
    /\ changes \in Nat
    /\ DOMAIN official = Items /\ official[Roster] \in [kept : Nat, quote : Nat]
    /\ \A i \in Items : Asked(i) \in 0..changes
    /\ \A n \in DOMAIN evidence : evidence[n] \in Int /\ evidence[n] <= changes
    /\ \A n \in DOMAIN bundles :
          /\ IsPlan(bundles[n]) /\ bundles[n].rev <= changes
          /\ \A i \in Items : bundles[n].paths[i] \in DOMAIN evidence
    /\ \A n \in DOMAIN manifests :
          /\ manifests[n] = [plan |-> manifests[n].plan, seen |-> manifests[n].seen]
          /\ manifests[n].seen \in [Items -> Nat]
    /\ job \in [Procs -> Jobs \cup {"none"}] /\ step \in [Procs -> Nat]
    /\ seen \in [Procs -> [Items -> Int]]
    /\ DOMAIN plan = Procs /\ DOMAIN source = Procs /\ DOMAIN target = Procs
    /\ DOMAIN outcome = Procs /\ DOMAIN moments = Procs /\ DOMAIN settled = Procs

\* A moment of a job is over, or it is the present one.
Past(now) ==
    /\ \A i \in Items : now.official[i] \in Int /\ now.official[i] <= Asked(i)
    /\ \A x \in DOMAIN now.evidence :
          x \in DOMAIN evidence /\ now.evidence[x] \in Int /\ now.evidence[x] <= evidence[x]
    /\ \A n \in DOMAIN now.bundles :
          /\ n \in DOMAIN bundles /\ IsPlan(now.bundles[n])
          /\ now.bundles[n].paths = bundles[n].paths /\ now.bundles[n].rev <= bundles[n].rev

Still(now) ==
    /\ \A i \in Items : now.official[i] = Asked(i)
    /\ \A x \in DOMAIN now.evidence : now.evidence[x] = evidence[x]
    /\ \A n \in DOMAIN now.bundles : now.bundles[n] = bundles[n]

JobInv(p) ==
    job[p] # "none" =>
        /\ step[p] \in 1..Len(Program(job[p])) /\ outcome[p] = "none"
        /\ IsSeq(moments[p]) /\ Len(moments[p]) >= 1
        /\ \A k \in 1..Len(moments[p]) : Past(moments[p][k])
        /\ Still(moments[p][Len(moments[p])])

CollectInv(p) ==
    job[p] = "collect" =>
        /\ source[p] = NoName
        /\ \A i \in Items : seen[p][i] <= changes
        /\ IsPlan(plan[p]) /\ plan[p].rev <= changes /\ DOMAIN plan[p].paths = Items
        /\ step[p] > 3 => plan[p].paths[Roster] \in DOMAIN evidence
        /\ step[p] > 6 => plan[p].paths[Page] \in DOMAIN evidence
        /\ step[p] > 9 => plan[p].paths[Document] \in DOMAIN evidence

File(p, i) == plan[p].paths[i]
Then(p)    == moments[p][settled[p]]

\* What a publication has read, step by step, and what it says of the moment at
\* which the last item was read for the first time.
PublishInv(p) ==
    job[p] = "publish" =>
        /\ \A k \in 1..Len(moments[p]) :
              /\ source[p] \in DOMAIN moments[p][k].bundles
              /\ \A i \in Items :
                    moments[p][k].bundles[source[p]].paths[i] \in DOMAIN moments[p][k].evidence
        /\ step[p] > 1 =>
              /\ IsPlan(plan[p])
              /\ plan[p].paths = bundles[source[p]].paths /\ plan[p].rev <= bundles[source[p]].rev
        /\ step[p] > 2 /\ Len(moments[p]) = 1 => plan[p] = bundles[source[p]]
        /\ step[p] <= 3 => seen[p][Roster] = NotSeen
        /\ step[p] <= 4 => seen[p][Page] = NotSeen
        /\ step[p] <= 5 => seen[p][Document] = NotSeen
        /\ step[p] > 3 => /\ seen[p][Roster] \in Nat /\ seen[p][Roster] <= Asked(Roster)
                          /\ seen[p][Roster] <= evidence[File(p, Roster)]
        /\ step[p] > 4 => /\ seen[p][Page] \in Nat /\ seen[p][Page] <= evidence[File(p, Page)]
                          /\ \E k \in 1..Len(moments[p]) :
                                moments[p][k].official[Page] = seen[p][Page]
        /\ step[p] > 5 =>
              /\ settled[p] \in 1..Len(moments[p]) /\ seen[p][Document] \in Nat
              /\ seen[p][Roster] <= Then(p).official[Roster]
              /\ Then(p).official[Document] = seen[p][Document]
              /\ \A i \in Items : seen[p][i] <= Then(p).evidence[File(p, i)]
              /\ Then(p).evidence[File(p, Document)] = seen[p][Document]
              /\ plan[p].rev <= Then(p).bundles[source[p]].rev
        /\ step[p] > 9  => Then(p).official[Roster] = seen[p][Roster]
        /\ step[p] > 12 => Then(p).bundles[source[p]].rev = plan[p].rev
        /\ step[p] > 13 => Then(p).evidence[File(p, Roster)] = seen[p][Roster]
        /\ step[p] > 14 => Then(p).evidence[File(p, Page)] = seen[p][Page]

RevalidateInv(p) ==
    job[p] = "revalidate" =>
        /\ source[p] \in DOMAIN manifests
        /\ step[p] > 1 => manifests[source[p]] = [plan |-> plan[p], seen |-> seen[p]]

Excused(p) ==
    \/ source[p] = NoName
    \/ Len(moments[p]) > 1
    \/ \E i \in Items : ~Fits(moments[p][1], plan[p].paths, i)
    \/ \E i \in Items : seen[p][i] \notin {NotSeen, moments[p][1].official[i]}

ProcInv(p) ==
    /\ JobInv(p) /\ CollectInv(p) /\ PublishInv(p) /\ RevalidateInv(p)
    /\ outcome[p] = "refused" => Excused(p)

IInv == TypeInv /\ \A p \in Procs : ProcInv(p)

LEMMA AskedIs ==
    /\ Asked(Roster) = official[Roster].kept /\ Asked(Page) = official[Page]
    /\ Asked(Document) = official[Document]
    /\ Asked(Roster)' = official'[Roster].kept /\ Asked(Page)' = official'[Page]
    /\ Asked(Document)' = official'[Document]
BY DEF Asked, AskedIdentity, AskedPages, AskedDocument, Roster, Page, Document

LEMMA Initially == Init => IInv
<1> SUFFICES ASSUME Init PROVE IInv
    OBVIOUS
<1>1. /\ DOMAIN official = Items /\ official[Roster] = [kept |-> 0, quote |-> 0]
      /\ official[Page] = 0 /\ official[Document] = 0 /\ changes = 0
    BY DEF Init, Items, Roster, Page, Document
<1>2. \A i \in Items : Asked(i) \in 0..changes
    BY <1>1, AskedIs DEF Items
<1>3. \/ evidence = <<>> /\ bundles = <<>>
      \/ evidence = [n \in {<<i>> : i \in Items} |-> 0] /\ bundles = [n \in {<<"bundle">>} |-> FirstPlan]
    BY DEF Init
<1>4. \A n \in DOMAIN evidence : evidence[n] \in Int /\ evidence[n] <= changes
    BY <1>1, <1>3
<1>5. \A n \in DOMAIN bundles :
          /\ IsPlan(bundles[n]) /\ bundles[n].rev <= changes
          /\ \A i \in Items : bundles[n].paths[i] \in DOMAIN evidence
    BY <1>1, <1>3 DEF FirstPlan, IsPlan
<1>6. /\ manifests = <<>> /\ job = [p \in Procs |-> "none"] /\ step = [p \in Procs |-> 0]
      /\ seen = [p \in Procs |-> [i \in Items |-> NotSeen]]
      /\ DOMAIN plan = Procs /\ DOMAIN source = Procs /\ DOMAIN target = Procs
      /\ outcome = [p \in Procs |-> "none"] /\ DOMAIN moments = Procs /\ DOMAIN settled = Procs
    BY DEF Init
<1>7. TypeInv
    <2>1. job \in [Procs -> Jobs \cup {"none"}] /\ step \in [Procs -> Nat]
        BY <1>6
    <2>2. seen \in [Procs -> [Items -> Int]]
        BY <1>6 DEF NotSeen
    <2> QED
        BY <1>1, <1>2, <1>4, <1>5, <1>6, <2>1, <2>2 DEF TypeInv
<1>8. ASSUME NEW p \in Procs PROVE ProcInv(p)
    <2>1. job[p] = "none" /\ outcome[p] = "none"
        BY <1>6
    <2> QED
        BY <2>1 DEF ProcInv, JobInv, CollectInv, PublishInv, RevalidateInv
<1> QED
    BY <1>7, <1>8 DEF IInv

-----------------------------------------------------------------------------
\* What a step of one job does to the others

\* Files are only added, and the sources answer what they did.
Adds(new, old) == \A n \in DOMAIN old : n \in DOMAIN new /\ new[n] = old[n]
Grows ==
    /\ \A i \in Items : Asked(i)' = Asked(i)
    /\ Adds(evidence', evidence) /\ Adds(bundles', bundles) /\ Adds(manifests', manifests)
    /\ changes <= changes'

Apart(p) ==
    /\ job'[p] = job[p] /\ step'[p] = step[p] /\ outcome'[p] = outcome[p]
    /\ seen'[p] = seen[p] /\ plan'[p] = plan[p] /\ source'[p] = source[p]
    /\ moments'[p] = moments[p] /\ settled'[p] = settled[p]

LEMMA MomentsStay ==
    ASSUME NEW now, Past(now), Grows
    PROVE  Past(now)' /\ (Still(now) => Still(now)')
BY DEF Past, Still, Grows, Adds

\* A job that goes on has had the moments it had.
LEMMA JobGoesOn ==
    ASSUME NEW p, JobInv(p), Grows, job[p] # "none", job'[p] = job[p], outcome'[p] = outcome[p],
           step'[p] \in 1..Len(Program(job[p])), moments'[p] = moments[p]
    PROVE  JobInv(p)'
<1>1. /\ step[p] \in 1..Len(Program(job[p])) /\ outcome[p] = "none"
      /\ IsSeq(moments[p]) /\ Len(moments[p]) >= 1
      /\ \A k \in 1..Len(moments[p]) : Past(moments[p][k])
      /\ Still(moments[p][Len(moments[p])])
    BY DEF JobInv
<1>2. Len(moments[p]) \in 1..Len(moments[p])
    BY <1>1 DEF IsSeq
<1>3. ASSUME NEW k \in 1..Len(moments[p])
      PROVE  /\ Past(moments[p][k])'
             /\ k = Len(moments[p]) => Still(moments[p][k])'
    <2>1. PICK now : now = moments[p][k]
        OBVIOUS
    <2>2. Past(now) /\ (k = Len(moments[p]) => Still(now))
        BY <1>1, <2>1
    <2>3. Past(now)' /\ (k = Len(moments[p]) => Still(now)')
        BY <2>2, MomentsStay
    <2>4. moments'[p][k] = now
        BY <2>1
    <2> QED
        BY <2>3, <2>4 DEF Past, Still
<1>4. \A k \in 1..Len(moments[p]) : Past(moments[p][k])'
    BY <1>3
<1>5. Still(moments[p][Len(moments[p])])'
    <2>1. PICK k : k = Len(moments[p])
        OBVIOUS
    <2>2. Still(moments[p][k])'
        BY <1>2, <1>3, <2>1
    <2>3. k = Len(moments'[p])
        BY <2>1
    <2> QED
        BY <2>2, <2>3 DEF Still
<1> QED
    BY <1>1, <1>4, <1>5 DEF JobInv

\* What a job has read and knows stays right when files are added.
LEMMA OthersKeep ==
    ASSUME NEW p \in Procs, TypeInv, changes' \in Nat, ProcInv(p), Grows, Apart(p)
    PROVE  ProcInv(p)'
<1>1. JobInv(p)'
    <2>1. CASE job[p] = "none"
        BY <2>1 DEF JobInv, Apart
    <2>2. CASE job[p] # "none"
        BY <2>2, JobGoesOn DEF ProcInv, Apart, JobInv
    <2> QED
        BY <2>1, <2>2
<1>2. CollectInv(p)'
    <2> SUFFICES ASSUME job[p] = "collect" PROVE CollectInv(p)'
        BY DEF CollectInv, Apart
    <2>1. CollectInv(p)
        BY DEF ProcInv
    <2>2. \A i \in Items : seen[p][i] \in Int
        BY DEF TypeInv
    <2> QED
        <3>1. changes \in Nat /\ changes <= changes' /\ \A n \in DOMAIN evidence : n \in DOMAIN evidence'
            BY DEF TypeInv, Grows, Adds
        <3>2. \A i \in Items : seen[p][i] <= changes'
            BY <2>1, <2>2, <3>1 DEF CollectInv
        <3>3. plan[p].rev <= changes'
            BY <2>1, <3>1 DEF CollectInv, IsPlan
        <3> QED
            BY <2>1, <3>1, <3>2, <3>3 DEF CollectInv, Apart
<1>3. PublishInv(p)'
    <2> SUFFICES ASSUME job[p] = "publish" PROVE PublishInv(p)'
        BY DEF PublishInv, Apart
    <2>1. PublishInv(p) /\ JobInv(p)
        BY DEF ProcInv
    <2>2. 1 \in 1..Len(moments[p]) /\ Past(moments[p][1])
        BY <2>1 DEF JobInv, IsSeq
    <2>3. source[p] \in DOMAIN bundles /\ bundles'[source[p]] = bundles[source[p]]
        BY <2>1, <2>2 DEF PublishInv, Past, Grows, Adds
    <2>4. ASSUME step[p] > 1, NEW i \in Items
          PROVE  File(p, i) \in DOMAIN evidence /\ evidence'[File(p, i)] = evidence[File(p, i)]
        BY <2>1, <2>3, <2>4 DEF PublishInv, TypeInv, Grows, Adds, File
    <2>5. step[p] \in Nat
        BY DEF TypeInv
    <2>6. step[p] > 3 => evidence'[File(p, Roster)] = evidence[File(p, Roster)]
        BY <2>4, <2>5 DEF Items
    <2>7. step[p] > 4 => evidence'[File(p, Page)] = evidence[File(p, Page)]
        BY <2>4, <2>5 DEF Items
    <2>8. Asked(Roster)' = Asked(Roster)
        BY DEF Grows, Items
    <2>9. Then(p)' = Then(p) /\ \A i \in Items : File(p, i)' = File(p, i)
        BY DEF Apart, Then, File
    <2>10. File(p, Roster)' = File(p, Roster) /\ File(p, Page)' = File(p, Page)
           /\ File(p, Document)' = File(p, Document)
        BY <2>9 DEF Items
    <2> QED
        BY <2>1, <2>3, <2>6, <2>7, <2>8, <2>9, <2>10 DEF PublishInv, Apart
<1>4. RevalidateInv(p)'
    BY DEF ProcInv, RevalidateInv, Apart, Grows, Adds
<1>5. outcome'[p] = "refused" => Excused(p)'
    BY DEF ProcInv, Excused, Apart
<1> QED
    BY <1>1, <1>2, <1>3, <1>4, <1>5 DEF ProcInv

\* A step of p is p's alone.
Others(p) == \A q \in Procs \ {p} : Apart(q)

LEMMA AdvanceIs ==
    ASSUME NEW p \in Procs, NEW n \in Nat, TypeInv, Advance(p, n)
    PROVE  /\ job' \in [Procs -> Jobs \cup {"none"}] /\ step' \in [Procs -> Nat]
           /\ DOMAIN outcome' = Procs
           /\ \A q \in Procs \ {p} : /\ job'[q] = job[q] /\ step'[q] = step[q]
                                     /\ outcome'[q] = outcome[q]
           /\ \/ /\ job'[p] = job[p] /\ step'[p] = step[p] + n /\ outcome'[p] = outcome[p]
                 /\ ~(step[p] + n > Len(Program(job[p])))
              \/ job'[p] = "none" /\ outcome'[p] = "done"
<1>1. CASE step[p] + n > Len(Program(job[p]))
    BY <1>1 DEF Advance, TypeInv
<1>2. CASE ~(step[p] + n > Len(Program(job[p])))
    BY <1>2 DEF Advance, TypeInv
<1> QED
    BY <1>1, <1>2

\* A job that is over promises nothing, and one that is refused has an excuse.
LEMMA IdleKeeps ==
    ASSUME NEW p \in Procs, job'[p] = "none", outcome'[p] = "refused" => Excused(p)'
    PROVE  ProcInv(p)'
BY DEF ProcInv, JobInv, CollectInv, PublishInv, RevalidateInv

\* The parts of the state that a job step may leave alone.
JobsTyped ==
    /\ job \in [Procs -> Jobs \cup {"none"}] /\ step \in [Procs -> Nat]
    /\ seen \in [Procs -> [Items -> Int]]
    /\ DOMAIN plan = Procs /\ DOMAIN source = Procs /\ DOMAIN target = Procs
    /\ DOMAIN outcome = Procs /\ DOMAIN moments = Procs /\ DOMAIN settled = Procs

LEMMA FilesStay ==
    ASSUME TypeInv, JobsTyped', UNCHANGED <<official, evidence, bundles, manifests, changes>>
    PROVE  TypeInv' /\ Grows
<1>1. \A i \in Items : Asked(i)' = Asked(i)
    BY AskedIs DEF Items
<1>2. Grows
    BY <1>1 DEF Grows, Adds, TypeInv
<1>3. TypeInv'
    BY <1>1 DEF TypeInv, JobsTyped
<1> QED
    BY <1>2, <1>3

LEMMA FailKeeps ==
    ASSUME NEW p \in Procs, NEW reason, TypeInv, Fail(p, reason),
           UNCHANGED <<official, moments, settled, changes>>,
           reason = "refused" => Excused(p)
    PROVE  TypeInv' /\ Grows /\ Others(p) /\ ProcInv(p)'
<1>1. /\ outcome' = [outcome EXCEPT ![p] = reason] /\ step' = [step EXCEPT ![p] = 0]
      /\ job' = [job EXCEPT ![p] = "none"]
      /\ UNCHANGED <<evidence, bundles, manifests, seen, plan, source, target>>
    BY DEF Fail, locals
<1>2. JobsTyped'
    BY <1>1 DEF TypeInv, JobsTyped
<1>3. TypeInv' /\ Grows
    BY <1>1, <1>2, FilesStay
<1>4. Others(p)
    BY <1>1 DEF Others, Apart, TypeInv
<1>5. job'[p] = "none" /\ outcome'[p] = reason
    BY <1>1 DEF TypeInv
<1>6. Excused(p)' <=> Excused(p)
    BY <1>1 DEF Excused
<1> QED
    BY <1>3, <1>4, <1>5, <1>6, IdleKeeps

\* What a step of p has to leave behind.
Fine(p) == TypeInv' /\ Grows /\ Others(p) /\ ProcInv(p)'

\* The job goes on and what it knows is right, or it is done.
LEMMA GoesOn ==
    ASSUME NEW p \in Procs, NEW n \in Nat \ {0}, TypeInv, ProcInv(p), job[p] # "none", Grows,
           Advance(p, n), moments'[p] = moments[p],
           job'[p] = job[p] /\ step'[p] = step[p] + n
               => CollectInv(p)' /\ PublishInv(p)' /\ RevalidateInv(p)'
    PROVE  ProcInv(p)'
<1>1. CASE job'[p] = "none" /\ outcome'[p] = "done"
    BY <1>1, IdleKeeps
<1>2. CASE /\ job'[p] = job[p] /\ step'[p] = step[p] + n /\ outcome'[p] = outcome[p]
           /\ ~(step[p] + n > Len(Program(job[p])))
    <2>1. JobInv(p)
        BY DEF ProcInv
    <2>2. step[p] \in 1..Len(Program(job[p])) /\ outcome[p] = "none"
        BY <2>1 DEF JobInv
    <2>3. step'[p] \in 1..Len(Program(job[p]))
        BY <1>2, <2>2
    <2>4. JobInv(p)'
        BY <1>2, <2>1, <2>3, JobGoesOn
    <2> QED
        BY <1>2, <2>2, <2>4 DEF ProcInv
<1> QED
    BY <1>1, <1>2, AdvanceIs

\* If nothing has happened since the job began and everything fitted, it still does.
LEMMA Undisturbed ==
    ASSUME NEW p, JobInv(p), job[p] # "none", ~Excused(p)
    PROVE  \A i \in Items : /\ evidence[plan[p].paths[i]] = Asked(i)
                            /\ seen[p][i] \in {NotSeen, Asked(i)}
<1>1. Len(moments[p]) = 1 /\ Still(moments[p][1])
    <2>1. Len(moments[p]) \in Nat
        BY DEF JobInv, IsSeq
    <2>2. Len(moments[p]) >= 1 /\ Still(moments[p][Len(moments[p])])
        BY DEF JobInv
    <2>3. ~(Len(moments[p]) > 1)
        BY DEF Excused
    <2>4. ASSUME NEW n \in Nat, n >= 1, ~(n > 1) PROVE n = 1
        BY <2>4
    <2>5. Len(moments[p]) = 1
        BY <2>1, <2>2, <2>3, <2>4
    <2> QED
        BY <2>2, <2>5, Zenon
<1>2. ASSUME NEW i \in Items
      PROVE  /\ evidence[plan[p].paths[i]] = Asked(i)
             /\ seen[p][i] \in {NotSeen, Asked(i)}
    <2>1. moments[p][1].official[i] = Asked(i)
        BY <1>1 DEF Still
    <2>2. Fits(moments[p][1], plan[p].paths, i)
        BY DEF Excused
    <2>3. seen[p][i] \in {NotSeen, moments[p][1].official[i]}
        BY DEF Excused
    <2>4. evidence[plan[p].paths[i]] = moments[p][1].official[i]
        BY <1>1, <2>2 DEF Fits, Pairs, Still
    <2> QED
        BY <2>1, <2>3, <2>4
<1> QED
    BY <1>2

LEMMA ThreeKinds ==
    ASSUME NEW p \in Procs, TypeInv, ProcInv(p), job[p] # "none"
    PROVE  /\ job[p] \in {"collect", "publish", "revalidate"}
           /\ step[p] \in 1..Len(Program(job[p])) /\ step[p] \in Nat /\ outcome[p] = "none"
BY DEF TypeInv, Jobs, ProcInv, JobInv

-----------------------------------------------------------------------------
\* The steps of a job

LEMMA StartKeeps ==
    ASSUME NEW p \in Procs, NEW j \in Jobs, TypeInv, ProcInv(p), Start(p, j)
    PROVE  Fine(p)
<1>1. PICK n \in CASE j = "collect"    -> {NoName}
                   [] j = "publish"    -> DOMAIN bundles
                   [] j = "revalidate" -> DOMAIN manifests : Fresh(p, j, n)
    BY DEF Start
<1>2. /\ j = "collect" => n = NoName
      /\ j = "publish" => n \in DOMAIN bundles
      /\ j = "revalidate" => n \in DOMAIN manifests
    BY <1>1
<1>3. j # "none" /\ j \in {"collect", "publish", "revalidate"}
    BY DEF Jobs
<1>4. /\ job' = [job EXCEPT ![p] = j] /\ step' = [step EXCEPT ![p] = 1]
      /\ source' = [source EXCEPT ![p] = n]
      /\ seen' = [seen EXCEPT ![p] = [i \in Items |-> NotSeen]]
      /\ plan' = [plan EXCEPT ![p] = NoPlan]
      /\ target' = [target EXCEPT ![p] = NoName]
      /\ outcome' = [outcome EXCEPT ![p] = "none"]
      /\ moments' = [moments EXCEPT ![p] = <<Now>>]
      /\ settled' = [settled EXCEPT ![p] = 0]
    BY <1>1, <1>3 DEF Fresh
<1>5. UNCHANGED <<official, evidence, bundles, manifests, changes>>
    BY DEF Start, files
<1>6. JobsTyped'
    BY <1>4 DEF TypeInv, JobsTyped, NotSeen
<1>7. TypeInv' /\ Grows
    BY <1>5, <1>6, FilesStay
<1>8. Others(p)
    BY <1>4 DEF Others, Apart, TypeInv
<1>9. /\ job'[p] = j /\ step'[p] = 1 /\ source'[p] = n /\ plan'[p] = NoPlan
      /\ seen'[p] = [i \in Items |-> NotSeen] /\ outcome'[p] = "none"
      /\ moments'[p] = <<Now>>
    BY <1>4 DEF TypeInv
<1>10. /\ \A i \in Items : Now.official[i] = Asked(i) /\ Asked(i)' = Asked(i) /\ Asked(i) \in Int
       /\ Now.evidence = evidence /\ Now.bundles = bundles
    BY <1>7 DEF Now, Grows, TypeInv
<1>11. JobInv(p)'
    <2>1. 1 \in 1..Len(Program(j))
        BY <1>3, CollectSteps, PublishSteps, RevalidateSteps
    <2>2. IsSeq(moments'[p]) /\ Len(moments'[p]) = 1 /\ moments'[p][1] = Now
        BY <1>9 DEF IsSeq
    <2>3. PICK now : now = Now
        OBVIOUS
    <2>4. Past(now)' /\ Still(now)'
        BY <1>5, <1>10, <2>3 DEF Past, Still, TypeInv, IsPlan
    <2>5. \A k \in 1..Len(moments'[p]) : moments'[p][k] = now
        BY <2>2, <2>3
    <2>6. 1 \in 1..Len(moments'[p])
        BY <2>2
    <2>7. \A k \in 1..Len(moments[p])' : Past(moments[p][k])'
        BY <2>4, <2>5 DEF Past
    <2>8. Still(moments[p][Len(moments[p])])'
        BY <2>2, <2>3, <2>4 DEF Still
    <2> QED
        BY <1>9, <2>1, <2>2, <2>7, <2>8 DEF JobInv
<1>12. CollectInv(p)'
    <2>1. IsPlan(NoPlan) /\ NoPlan.rev <= changes' /\ DOMAIN NoPlan.paths = Items
        BY <1>5 DEF NoPlan, IsPlan, NotSeen, TypeInv
    <2>2. \A i \in Items : seen'[p][i] <= changes'
        BY <1>5, <1>9 DEF TypeInv, NotSeen
    <2> QED
        BY <1>2, <1>9, <2>1, <2>2 DEF CollectInv
<1>13. PublishInv(p)'
    <2> SUFFICES ASSUME j = "publish" PROVE PublishInv(p)'
        BY <1>9 DEF PublishInv
    <2>1. n \in DOMAIN bundles /\ \A i \in Items : bundles[n].paths[i] \in DOMAIN evidence
        BY <1>2 DEF TypeInv
    <2>2. \A k \in 1..Len(moments'[p]) :
              moments'[p][k].bundles = bundles /\ moments'[p][k].evidence = evidence
        BY <1>9, <1>10
    <2> QED
        BY <1>9, <2>1, <2>2 DEF PublishInv, Items
<1>14. RevalidateInv(p)'
    BY <1>2, <1>5, <1>9 DEF RevalidateInv
<1> QED
    BY <1>7, <1>8, <1>9, <1>11, <1>12, <1>13, <1>14 DEF Fine, ProcInv

LEMMA UnansweredKeeps ==
    ASSUME NEW p \in Procs, TypeInv, ProcInv(p), Unanswered(p)
    PROVE  Fine(p)
<1>1. Fresh(p, "none", NoName) /\ UNCHANGED <<official, evidence, bundles, manifests, changes>>
    BY DEF Unanswered
<1>2. JobsTyped'
    BY <1>1 DEF Fresh, TypeInv, JobsTyped, NotSeen
<1>3. TypeInv' /\ Grows
    BY <1>1, <1>2, FilesStay
<1>4. Others(p)
    BY <1>1 DEF Fresh, Others, Apart, TypeInv
<1>5. job'[p] = "none" /\ outcome'[p] = "none"
    BY <1>1 DEF Fresh, TypeInv
<1> QED
    BY <1>3, <1>4, <1>5, IdleKeeps DEF Fine

\* Steps that leave the shelves of the plan alone, and the moments.
Quiet(p) ==
    /\ UNCHANGED <<official, evidence, bundles, manifests, changes, source, moments>>
    /\ seen' \in [Procs -> [Items -> Int]]
    /\ DOMAIN plan' = Procs /\ DOMAIN target' = Procs /\ DOMAIN settled' = Procs
    /\ \A q \in Procs \ {p} : seen'[q] = seen[q] /\ plan'[q] = plan[q] /\ settled'[q] = settled[q]

LEMMA QuietStep ==
    ASSUME NEW p \in Procs, NEW n \in Nat, TypeInv, Quiet(p), Advance(p, n)
    PROVE  TypeInv' /\ Grows /\ Others(p)
<1>1. JobsTyped'
    BY AdvanceIs DEF JobsTyped, Quiet, TypeInv
<1>2. TypeInv' /\ Grows
    BY <1>1, FilesStay DEF Quiet
<1>3. Others(p)
    BY AdvanceIs DEF Others, Apart, Quiet
<1> QED
    BY <1>2, <1>3

\* A collection that goes on.
LEMMA CollectGoesOn ==
    ASSUME NEW p \in Procs, NEW n \in Nat \ {0}, TypeInv, ProcInv(p), Quiet(p), Advance(p, n),
           job[p] = "collect", job'[p] = job[p] /\ step'[p] = step[p] + n => CollectInv(p)'
    PROVE  Fine(p)
<1>1. TypeInv' /\ Grows /\ Others(p)
    BY QuietStep
<1>2. ProcInv(p)'
    <2>1. moments'[p] = moments[p]
        BY DEF Quiet
    <2>2. job'[p] = job[p] => PublishInv(p)' /\ RevalidateInv(p)'
        BY DEF PublishInv, RevalidateInv
    <2> QED
        BY <1>1, <2>1, <2>2, GoesOn
<1> QED
    BY <1>1, <1>2 DEF Fine

LEMMA PublishGoesOn ==
    ASSUME NEW p \in Procs, NEW n \in Nat \ {0}, TypeInv, ProcInv(p), Quiet(p), Advance(p, n),
           job[p] = "publish", job'[p] = job[p] /\ step'[p] = step[p] + n => PublishInv(p)'
    PROVE  Fine(p)
<1>1. TypeInv' /\ Grows /\ Others(p)
    BY QuietStep
<1>2. ProcInv(p)'
    <2>1. moments'[p] = moments[p]
        BY DEF Quiet
    <2>2. job'[p] = job[p] => CollectInv(p)' /\ RevalidateInv(p)'
        BY DEF CollectInv, RevalidateInv
    <2> QED
        BY <1>1, <2>1, <2>2, GoesOn
<1> QED
    BY <1>1, <1>2 DEF Fine

LEMMA RevalidateGoesOn ==
    ASSUME NEW p \in Procs, NEW n \in Nat \ {0}, TypeInv, ProcInv(p), Quiet(p), Advance(p, n),
           job[p] = "revalidate", job'[p] = job[p] /\ step'[p] = step[p] + n => RevalidateInv(p)'
    PROVE  Fine(p)
<1>1. TypeInv' /\ Grows /\ Others(p)
    BY QuietStep
<1>2. ProcInv(p)'
    <2>1. moments'[p] = moments[p]
        BY DEF Quiet
    <2>2. job'[p] = job[p] => CollectInv(p)' /\ PublishInv(p)'
        BY DEF CollectInv, PublishInv
    <2> QED
        BY <1>1, <2>1, <2>2, GoesOn
<1> QED
    BY <1>1, <1>2 DEF Fine

\* A job learns the version of an item.
LEMMA SeenIs ==
    ASSUME NEW p \in Procs, NEW i \in Items, NEW v \in Int, TypeInv,
           seen' = [seen EXCEPT ![p][i] = v]
    PROVE  /\ seen' \in [Procs -> [Items -> Int]]
           /\ \A q \in Procs \ {p} : seen'[q] = seen[q]
           /\ seen'[p] = [seen[p] EXCEPT ![i] = v]
           /\ seen'[p][i] = v /\ \A k \in Items \ {i} : seen'[p][k] = seen[p][k]
<1>1. seen \in [Procs -> [Items -> Int]]
    BY DEF TypeInv
<1> QED
    BY <1>1

\* Only a collection fetches.
LEMMA FetchKeeps ==
    ASSUME NEW p \in Procs, TypeInv, ProcInv(p), Fetch(p)
    PROVE  Fine(p)
<1>1. At(p, "fetch") /\ job[p] # "none"
    BY DEF Fetch, At
<1>2. job[p] = "collect" /\ step[p] \in {1, 4, 7} /\ Here(p).item \in Items
    BY <1>1, ThreeKinds, PlacesOfCollect, PlacesOfPublish, PlacesOfRevalidate
<1> DEFINE i == Here(p).item
<1> HIDE DEF i
<1>3. /\ i \in Items /\ Asked(i) \in Int /\ Asked(i) <= changes
      /\ seen' = [seen EXCEPT ![p][i] = Asked(i)]
    BY <1>2 DEF Fetch, TypeInv, i
<1>4. Quiet(p)
    <2>1. UNCHANGED <<official, evidence, bundles, manifests, changes, source, moments, plan,
                      target, settled>>
        BY DEF Fetch, files, Outside
    <2>2. seen' \in [Procs -> [Items -> Int]] /\ \A q \in Procs \ {p} : seen'[q] = seen[q]
        BY <1>3, SeenIs
    <2> QED
        BY <2>1, <2>2 DEF Quiet, TypeInv
<1>5. ASSUME job'[p] = job[p], step'[p] = step[p] + 1 PROVE CollectInv(p)'
    <2>1. CollectInv(p)
        BY DEF ProcInv
    <2>2. \A k \in Items : seen'[p][k] <= changes
        BY <1>2, <1>3, <2>1 DEF TypeInv, CollectInv
    <2> QED
        BY <1>2, <1>4, <1>5, <2>1, <2>2 DEF CollectInv, Fetch, Outside, Quiet
<1> QED
    BY <1>2, <1>4, <1>5, CollectGoesOn DEF Fetch

\* The file of an item gets its place in the plan.
LEMMA PlacedIs ==
    ASSUME NEW p \in Procs, NEW name, TypeInv, IsPlan(plan[p]), DOMAIN plan[p].paths = Items
    PROVE  /\ DOMAIN Placed(p, name) = Procs
           /\ \A q \in Procs \ {p} : Placed(p, name)[q] = plan[q]
           /\ Here(p).item \notin Items => Placed(p, name) = plan
           /\ Here(p).item \in Items =>
                 /\ IsPlan(Placed(p, name)[p]) /\ Placed(p, name)[p].rev = 0
                 /\ Placed(p, name)[p].paths = [plan[p].paths EXCEPT ![Here(p).item] = name]
<1> DEFINE i == Here(p).item
<1>1. CASE i \notin Items
    BY <1>1 DEF Placed, TypeInv
<1>2. CASE i \in Items
    <2>1. Placed(p, name) = [plan EXCEPT ![p].paths[i] = name, ![p].rev = 0]
        BY <1>2 DEF Placed
    <2> HIDE DEF i
    <2>2. Placed(p, name)[p] = [paths |-> [plan[p].paths EXCEPT ![i] = name], rev |-> 0]
        BY <2>1 DEF TypeInv, IsPlan
    <2>3. DOMAIN Placed(p, name) = Procs /\ \A q \in Procs \ {p} : Placed(p, name)[q] = plan[q]
        BY <2>1 DEF TypeInv
    <2> QED
        BY <1>2, <2>2, <2>3 DEF IsPlan, i
<1> QED
    BY <1>1, <1>2

\* What was known of the last moment stays known; a step may add to it.
LEMMA PublishStays ==
    ASSUME NEW p \in Procs, PublishInv(p), job[p] = "publish", step[p] \in Nat, step[p] > 5,
           step'[p] = step[p] + 1, UNCHANGED <<official, evidence, bundles>>,
           seen'[p] = seen[p], plan'[p] = plan[p], source'[p] = source[p],
           moments'[p] = moments[p], settled'[p] = settled[p],
           step[p] = 9  => Then(p).official[Roster] = seen[p][Roster],
           step[p] = 12 => Then(p).bundles[source[p]].rev = plan[p].rev,
           step[p] = 13 => Then(p).evidence[File(p, Roster)] = seen[p][Roster],
           step[p] = 14 => Then(p).evidence[File(p, Page)] = seen[p][Page]
    PROVE  PublishInv(p)'
<1>1. Asked(Roster)' = Asked(Roster)
    BY AskedIs
<1>2. Then(p)' = Then(p) /\ \A i \in Items : File(p, i)' = File(p, i)
    BY DEF Then, File
<1>3. File(p, Roster)' = File(p, Roster) /\ File(p, Page)' = File(p, Page)
      /\ File(p, Document)' = File(p, Document)
    BY <1>2 DEF Items
<1>4. /\ \A k \in 1..Len(moments'[p]) :
            /\ source'[p] \in DOMAIN moments'[p][k].bundles
            /\ \A i \in Items :
                  moments'[p][k].bundles[source'[p]].paths[i] \in DOMAIN moments'[p][k].evidence
      /\ IsPlan(plan'[p]) /\ plan'[p].paths = bundles'[source'[p]].paths
      /\ plan'[p].rev <= bundles'[source'[p]].rev
      /\ Len(moments'[p]) = 1 => plan'[p] = bundles'[source'[p]]
    <2>1. /\ \A k \in 1..Len(moments[p]) :
                /\ source[p] \in DOMAIN moments[p][k].bundles
                /\ \A i \in Items :
                      moments[p][k].bundles[source[p]].paths[i] \in DOMAIN moments[p][k].evidence
          /\ step[p] > 1 =>
                /\ IsPlan(plan[p])
                /\ plan[p].paths = bundles[source[p]].paths /\ plan[p].rev <= bundles[source[p]].rev
          /\ step[p] > 2 /\ Len(moments[p]) = 1 => plan[p] = bundles[source[p]]
        BY DEF PublishInv
    <2>2. step[p] > 1 /\ step[p] > 2
        OBVIOUS
    <2> QED
        BY <2>1, <2>2
<1>5. /\ seen'[p][Roster] \in Nat /\ seen'[p][Roster] <= Asked(Roster)'
      /\ seen'[p][Roster] <= evidence'[File(p, Roster)']
      /\ seen'[p][Page] \in Nat /\ seen'[p][Page] <= evidence'[File(p, Page)']
      /\ \E k \in 1..Len(moments'[p]) : moments'[p][k].official[Page] = seen'[p][Page]
    <2>1. step[p] > 3 /\ step[p] > 4
        OBVIOUS
    <2>2. /\ seen[p][Roster] \in Nat /\ seen[p][Roster] <= Asked(Roster)
          /\ seen[p][Roster] <= evidence[File(p, Roster)]
          /\ seen[p][Page] \in Nat /\ seen[p][Page] <= evidence[File(p, Page)]
          /\ \E k \in 1..Len(moments[p]) : moments[p][k].official[Page] = seen[p][Page]
        BY <2>1 DEF PublishInv
    <2> QED
        BY <1>1, <1>3, <2>2
<1>6. /\ settled'[p] \in 1..Len(moments'[p]) /\ seen'[p][Document] \in Nat
      /\ seen'[p][Roster] <= Then(p)'.official[Roster]
      /\ Then(p)'.official[Document] = seen'[p][Document]
      /\ \A i \in Items : seen'[p][i] <= Then(p)'.evidence[File(p, i)']
      /\ Then(p)'.evidence[File(p, Document)'] = seen'[p][Document]
      /\ plan'[p].rev <= Then(p)'.bundles[source'[p]].rev
    BY <1>2, <1>3 DEF PublishInv
<1>7. /\ step'[p] > 9  => Then(p)'.official[Roster] = seen'[p][Roster]
      /\ step'[p] > 12 => Then(p)'.bundles[source'[p]].rev = plan'[p].rev
      /\ step'[p] > 13 => Then(p)'.evidence[File(p, Roster)'] = seen'[p][Roster]
      /\ step'[p] > 14 => Then(p)'.evidence[File(p, Page)'] = seen'[p][Page]
    <2>1. /\ step[p] > 9  => Then(p).official[Roster] = seen[p][Roster]
          /\ step[p] > 12 => Then(p).bundles[source[p]].rev = plan[p].rev
          /\ step[p] > 13 => Then(p).evidence[File(p, Roster)] = seen[p][Roster]
          /\ step[p] > 14 => Then(p).evidence[File(p, Page)] = seen[p][Page]
        BY DEF PublishInv
    <2> QED
        BY <1>2, <1>3, <2>1
<1>8. ~(step'[p] <= 3) /\ ~(step'[p] <= 4) /\ ~(step'[p] <= 5)
    OBVIOUS
<1> QED
    BY <1>4, <1>5, <1>6, <1>7, <1>8 DEF PublishInv

LEMMA LookKeeps ==
    ASSUME NEW p \in Procs, TypeInv, ProcInv(p), Look(p)
    PROVE  Fine(p)
<1> DEFINE item == Here(p).item
           name == NameFor(Shelf(p), item, Content(p))
           there == name \in DOMAIN Shelf(p) /\ Shelf(p)[name] = Content(p)
           last == Len(Program(job[p])) + 1 - step[p]
           n == IF ~there THEN 1 ELSE IF item = "manifest" THEN last ELSE 2
<1>1. At(p, "look") /\ job[p] # "none"
    BY DEF Look, At
<1>2. /\ target' = [target EXCEPT ![p] = name]
      /\ plan' = IF there THEN Placed(p, name) ELSE plan
      /\ Advance(p, n)
      /\ UNCHANGED <<official, evidence, bundles, manifests, changes, source, moments, seen, settled>>
    BY DEF Look, Outside, files
<1>3. step[p] \in 1..Len(Program(job[p])) /\ Len(Program(job[p])) \in Nat
    BY <1>1, ThreeKinds, PlacesOfCollect, PlacesOfPublish, PlacesOfRevalidate
<1>4. last \in Nat \ {0} /\ step[p] + last > Len(Program(job[p]))
    BY <1>3
<1> HIDE DEF name, last
<1>5. n \in Nat \ {0}
    BY <1>4
<1>6. job[p] \in {"collect", "publish"}
    BY <1>1, ThreeKinds, PlacesOfRevalidate
<1>7. CASE job[p] = "collect"
    <2>1. /\ \/ step[p] = 2 /\ item = Roster
             \/ step[p] = 5 /\ item = Page
             \/ step[p] = 8 /\ item = Document
             \/ step[p] > 9 /\ item \in {"draft", "bundle"}
          /\ step[p] \in Nat
        BY <1>1, <1>7, ThreeKinds, PlacesOfCollect
    <2>2. CollectInv(p)
        BY DEF ProcInv
    <2>3. /\ DOMAIN Placed(p, name) = Procs
          /\ \A q \in Procs \ {p} : Placed(p, name)[q] = plan[q]
          /\ item \notin Items => Placed(p, name) = plan
          /\ item \in Items =>
                /\ IsPlan(Placed(p, name)[p]) /\ Placed(p, name)[p].rev = 0
                /\ Placed(p, name)[p].paths = [plan[p].paths EXCEPT ![item] = name]
        BY <1>7, <2>2, PlacedIs DEF CollectInv
    <2>4. Quiet(p)
        BY <1>2, <2>3 DEF Quiet, TypeInv
    <2>5. item # "manifest" /\ (item \in Items => Shelf(p) = evidence)
        BY <2>1 DEF Shelf, Items, Roster, Page, Document
    <2> HIDE DEF item
    <2>6. ASSUME job'[p] = job[p], step'[p] = step[p] + n PROVE CollectInv(p)'
        <3>1. CASE ~there
            BY <1>2, <1>7, <2>1, <2>2, <2>6, <3>1 DEF CollectInv
        <3>2. CASE there
            <4>1. n = 2 /\ step'[p] = step[p] + 2 /\ plan'[p] = Placed(p, name)[p]
                BY <1>2, <2>5, <2>6, <3>2
            <4>2. CASE item \in Items
                <5>1. name \in DOMAIN evidence /\ changes \in Nat
                    BY <2>5, <3>2, <4>2 DEF TypeInv
                <5>2. /\ IsPlan(plan'[p]) /\ plan'[p].rev = 0
                      /\ plan'[p].paths = [plan[p].paths EXCEPT ![item] = name]
                    BY <2>3, <4>1, <4>2
                <5>3. DOMAIN plan[p].paths = Items
                    BY <1>7, <2>2 DEF CollectInv
                <5>4. DOMAIN plan'[p].paths = Items /\ plan'[p].paths[item] = name
                      /\ \A k \in Items \ {item} : plan'[p].paths[k] = plan[p].paths[k]
                    BY <4>2, <5>2, <5>3
                <5>5. /\ step'[p] > 3 => plan'[p].paths[Roster] \in DOMAIN evidence
                      /\ step'[p] > 6 => plan'[p].paths[Page] \in DOMAIN evidence
                      /\ step'[p] > 9 => plan'[p].paths[Document] \in DOMAIN evidence
                    BY <1>7, <2>1, <2>2, <4>1, <4>2, <5>1, <5>4
                       DEF CollectInv, Items, Roster, Page, Document
                <5> QED
                    BY <1>2, <1>7, <2>2, <5>1, <5>2, <5>4, <5>5 DEF CollectInv
            <4>3. CASE item \notin Items
                BY <1>2, <1>7, <2>1, <2>2, <2>3, <4>1, <4>3 DEF CollectInv, Items
            <4> QED
                BY <4>2, <4>3
        <3> QED
            BY <3>1, <3>2
    <2> QED
        BY <1>2, <1>5, <1>7, <2>4, <2>6, CollectGoesOn
<1>8. CASE job[p] = "publish"
    <2>1. step[p] = 11 /\ item = "manifest"
        BY <1>1, <1>8, ThreeKinds, PlacesOfPublish
    <2>2. plan' = plan
        BY <1>2, <2>1 DEF Placed, Items, Roster, Page, Document
    <2>3. Quiet(p)
        BY <1>2, <2>2 DEF Quiet, TypeInv
    <2>4. ASSUME job'[p] = job[p], step'[p] = step[p] + n PROVE PublishInv(p)'
        <3>1. n = 1
            <4>1. ~(step[p] + n > Len(Program(job[p])))
                BY <1>2, <1>5, <1>8, <2>4, AdvanceIs
            <4> QED
                BY <1>4, <2>1, <4>1
        <3>2. PublishInv(p)
            BY DEF ProcInv
        <3> QED
            BY <1>2, <1>8, <2>1, <2>2, <2>4, <3>1, <3>2, PublishStays
    <2> QED
        BY <1>2, <1>5, <1>8, <2>3, <2>4, PublishGoesOn
<1> QED
    BY <1>6, <1>7, <1>8

\* What a check that holds now tells of the moment before: a version that is
\* between two equal ones is that one.
LEMMA BackThen ==
    ASSUME NEW p \in Procs, JobInv(p), PublishInv(p), job[p] = "publish", step[p] \in Nat, step[p] > 5
    PROVE  /\ Asked(Roster) = seen[p][Roster] => Then(p).official[Roster] = seen[p][Roster]
           /\ bundles[source[p]] = plan[p] => Then(p).bundles[source[p]].rev = plan[p].rev
           /\ \A i \in Items : evidence[File(p, i)] = seen[p][i]
                                   => Then(p).evidence[File(p, i)] = seen[p][i]
<1>1. /\ settled[p] \in 1..Len(moments[p]) /\ seen[p][Document] \in Nat
      /\ seen[p][Roster] <= Then(p).official[Roster]
      /\ \A i \in Items : seen[p][i] <= Then(p).evidence[File(p, i)]
      /\ plan[p].rev <= Then(p).bundles[source[p]].rev
    BY DEF PublishInv
<1>2. IsPlan(plan[p]) /\ plan[p].paths = bundles[source[p]].paths
    BY DEF PublishInv
<1>3. seen[p][Roster] \in Nat /\ seen[p][Page] \in Nat
    BY DEF PublishInv
<1>4. \A i \in Items : seen[p][i] \in Nat
    BY <1>1, <1>3 DEF Items
<1>5. Past(Then(p))
    BY <1>1 DEF JobInv, Then
<1>6. source[p] \in DOMAIN Then(p).bundles
    BY <1>1 DEF PublishInv, Then
<1>7. ASSUME NEW i \in Items PROVE File(p, i) \in DOMAIN Then(p).evidence
    <2>1. Then(p).bundles[source[p]].paths[i] \in DOMAIN Then(p).evidence
        BY <1>1 DEF PublishInv, Then
    <2>2. Then(p).bundles[source[p]].paths = plan[p].paths
        BY <1>2, <1>5, <1>6 DEF Past
    <2> QED
        BY <2>1, <2>2 DEF File
<1>8. Asked(Roster) = seen[p][Roster] => Then(p).official[Roster] = seen[p][Roster]
    <2>1. Then(p).official[Roster] \in Int /\ Then(p).official[Roster] <= Asked(Roster)
        BY <1>5 DEF Past, Items
    <2> QED
        BY <1>1, <1>3, <2>1
<1>9. bundles[source[p]] = plan[p] => Then(p).bundles[source[p]].rev = plan[p].rev
    <2>1. /\ Then(p).bundles[source[p]].rev \in Int /\ plan[p].rev \in Int
          /\ Then(p).bundles[source[p]].rev <= bundles[source[p]].rev
        BY <1>2, <1>5, <1>6 DEF Past, IsPlan
    <2> QED
        BY <1>1, <2>1
<1>10. ASSUME NEW i \in Items, evidence[File(p, i)] = seen[p][i]
       PROVE  Then(p).evidence[File(p, i)] = seen[p][i]
    <2>1. /\ Then(p).evidence[File(p, i)] \in Int
          /\ Then(p).evidence[File(p, i)] <= evidence[File(p, i)]
        BY <1>5, <1>7 DEF Past
    <2> QED
        BY <1>1, <1>4, <1>10, <2>1
<1> QED
    BY <1>8, <1>9, <1>10

\* A check that holds.
LEMMA HoldsKeeps ==
    ASSUME NEW p \in Procs, TypeInv, ProcInv(p), job[p] # "none", Advance(p, 1),
           UNCHANGED <<evidence, bundles, manifests, locals>>, Outside,
           job[p] = "collect" => step[p] > 9,
           job[p] = "publish" =>
               /\ step[p] > 5 /\ step[p] # 9
               /\ step[p] = 12 => bundles[source[p]] = plan[p]
               /\ step[p] = 13 => evidence[File(p, Roster)] = seen[p][Roster]
               /\ step[p] = 14 => evidence[File(p, Page)] = seen[p][Page],
           job[p] = "revalidate" => step[p] > 1
    PROVE  Fine(p)
<1>1. Quiet(p)
    BY DEF Quiet, Outside, locals, TypeInv
<1>2. UNCHANGED <<seen, plan, source, moments, settled, official, changes, evidence, bundles, manifests>>
    BY DEF Outside, locals
<1>3. job[p] \in {"collect", "publish", "revalidate"} /\ step[p] \in Nat
    BY ThreeKinds
<1>4. JobInv(p) /\ CollectInv(p) /\ PublishInv(p) /\ RevalidateInv(p)
    BY DEF ProcInv
<1>5. CASE job[p] = "collect"
    <2>1. job'[p] = job[p] /\ step'[p] = step[p] + 1 => CollectInv(p)'
        BY <1>2, <1>3, <1>4, <1>5 DEF CollectInv
    <2> QED
        BY <1>1, <1>5, <2>1, CollectGoesOn
<1>6. CASE job[p] = "publish"
    <2>1. /\ step[p] = 12 => Then(p).bundles[source[p]].rev = plan[p].rev
          /\ step[p] = 13 => Then(p).evidence[File(p, Roster)] = seen[p][Roster]
          /\ step[p] = 14 => Then(p).evidence[File(p, Page)] = seen[p][Page]
        BY <1>3, <1>4, <1>6, BackThen DEF Items
    <2>2. job'[p] = job[p] /\ step'[p] = step[p] + 1 => PublishInv(p)'
        BY <1>2, <1>3, <1>4, <1>6, <2>1, PublishStays
    <2> QED
        BY <1>1, <1>6, <2>2, PublishGoesOn
<1>7. CASE job[p] = "revalidate"
    <2>1. job'[p] = job[p] /\ step'[p] = step[p] + 1 => RevalidateInv(p)'
        BY <1>2, <1>3, <1>4, <1>7 DEF RevalidateInv
    <2> QED
        BY <1>1, <1>7, <2>1, RevalidateGoesOn
<1> QED
    BY <1>3, <1>5, <1>6, <1>7

LEMMA ClearKeeps ==
    ASSUME NEW p \in Procs, TypeInv, ProcInv(p), Clear(p)
    PROVE  Fine(p)
<1>1. At(p, "clear") /\ job[p] # "none"
    BY DEF Clear, At
<1>2. job[p] = "collect" /\ step[p] > 9
    BY <1>1, ThreeKinds, PlacesOfCollect, PlacesOfPublish, PlacesOfRevalidate
<1> QED
    BY <1>1, <1>2, HoldsKeeps DEF Clear

\* A file is read again.
LEMMA KeepKeeps ==
    ASSUME NEW p \in Procs, TypeInv, ProcInv(p), Keep(p)
    PROVE  Fine(p)
<1> DEFINE i == Here(p).item
           holds == evidence[plan[p].paths[i]] = seen[p][i]
<1>1. At(p, "keep") /\ job[p] # "none" /\ Outside /\ Check(p, holds)
    BY DEF Keep, At
<1>2. \/ job[p] = "collect" /\ step[p] > 9
      \/ job[p] = "publish" /\ \/ step[p] = 13 /\ i = Roster
                               \/ step[p] \in {6, 7, 14} /\ i = Page
                               \/ step[p] \in {8, 15} /\ i = Document
    BY <1>1, ThreeKinds, PlacesOfCollect, PlacesOfPublish, PlacesOfRevalidate
<1>3. JobInv(p) /\ PublishInv(p) /\ CollectInv(p)
    BY DEF ProcInv
<1>4. CASE holds /\ Advance(p, 1) /\ UNCHANGED <<files, locals>>
    <2>1. job[p] = "publish" =>
               /\ step[p] > 5 /\ step[p] # 9 /\ step[p] # 12
               /\ step[p] = 13 => evidence[File(p, Roster)] = seen[p][Roster]
               /\ step[p] = 14 => evidence[File(p, Page)] = seen[p][Page]
        BY <1>2, <1>4 DEF File
    <2>2. UNCHANGED <<evidence, bundles, manifests, locals>>
        BY <1>4 DEF files
    <2> QED
        BY <1>1, <1>2, <1>4, <2>1, <2>2, HoldsKeeps
<1>5. CASE ~holds /\ Fail(p, "refused")
    <2>1. Excused(p)
        <3>1. CASE job[p] = "collect"
            BY <1>3, <3>1 DEF CollectInv, Excused
        <3>2. CASE job[p] = "publish"
            <4>1. i \in Items /\ seen[p][Roster] \in Nat /\ seen[p][Page] \in Nat
                  /\ seen[p][Document] \in Nat
                BY <1>2, <1>3, <3>2 DEF PublishInv, Items
            <4>2. seen[p][i] \in Nat
                BY <4>1 DEF Items
            <4> HIDE DEF i
            <4>3. ~Excused(p) => FALSE
                BY <1>1, <1>3, <1>5, <4>1, <4>2, Undisturbed DEF NotSeen
            <4> QED
                BY <4>3
        <3> QED
            BY <1>2, <3>1, <3>2
    <2> QED
        BY <1>1, <1>5, <2>1, FailKeeps DEF Outside, Fine
<1> QED
    BY <1>1, <1>4, <1>5 DEF Check

LEMMA ReopenKeeps ==
    ASSUME NEW p \in Procs, TypeInv, ProcInv(p), Reopen(p)
    PROVE  Fine(p)
<1>1. At(p, "reopen") /\ job[p] # "none" /\ Outside
    BY DEF Reopen, At
<1>2. ProcInv(p) /\ JobInv(p) /\ CollectInv(p) /\ PublishInv(p) /\ step[p] \in Nat
    BY DEF ProcInv, TypeInv
<1>3. CASE job[p] = "collect" /\ Check(p, target[p] \in DOMAIN drafts)
    <2>1. step[p] > 9
        BY <1>1, <1>3, ThreeKinds, PlacesOfCollect
    <2>2. CASE Advance(p, 1) /\ UNCHANGED <<files, locals>>
        <3>1. UNCHANGED <<evidence, bundles, manifests, locals>>
            BY <2>2 DEF files
        <3> QED
            BY <1>1, <1>3, <2>1, <2>2, <3>1, HoldsKeeps
    <2>3. CASE Fail(p, "refused")
        <3>1. Excused(p)
            BY <1>2, <1>3 DEF CollectInv, Excused
        <3> QED
            BY <1>1, <2>3, <3>1, FailKeeps DEF Outside, Fine
    <2> QED
        BY <1>3, <2>2, <2>3 DEF Check
<1>4. CASE /\ job[p] = "publish"
           /\ plan' = [plan EXCEPT ![p] = bundles[source[p]]]
           /\ Advance(p, 1)
           /\ UNCHANGED <<files, seen, source, target>>
    <2>1. step[p] = 2
        BY <1>1, <1>4, ThreeKinds, PlacesOfPublish
    <2>2. Quiet(p)
        BY <1>1, <1>4 DEF Quiet, Outside, files, TypeInv
    <2>3. ASSUME job'[p] = job[p], step'[p] = step[p] + 1 PROVE PublishInv(p)'
        <3>1. plan'[p] = bundles[source[p]] /\ step'[p] = 3
            BY <1>4, <2>1, <2>3 DEF TypeInv
        <3>2. UNCHANGED <<seen, source, moments, settled, evidence, bundles>>
            BY <1>1, <1>4 DEF Outside, files
        <3>3. source[p] \in DOMAIN bundles
            <4>1. 1 \in 1..Len(moments[p]) /\ Past(moments[p][1])
                BY <1>1, <1>2 DEF JobInv, IsSeq
            <4>2. source[p] \in DOMAIN moments[p][1].bundles
                BY <1>2, <1>4, <4>1 DEF PublishInv
            <4> QED
                BY <4>1, <4>2 DEF Past
        <3>4. IsPlan(bundles[source[p]])
            BY <3>3 DEF TypeInv
        <3>5. /\ \A k \in 1..Len(moments[p]) :
                     /\ source[p] \in DOMAIN moments[p][k].bundles
                     /\ \A i \in Items :
                          moments[p][k].bundles[source[p]].paths[i] \in DOMAIN moments[p][k].evidence
              /\ seen[p][Roster] = NotSeen /\ seen[p][Page] = NotSeen /\ seen[p][Document] = NotSeen
            BY <1>2, <1>4, <2>1 DEF PublishInv
        <3> QED
            BY <1>4, <2>3, <3>1, <3>2, <3>4, <3>5 DEF PublishInv, IsPlan
    <2> QED
        BY <1>4, <2>2, <2>3, PublishGoesOn
<1> QED
    BY <1>3, <1>4 DEF Reopen

\* A revalidation knows a version of every item.
LEMMA RevalidationKnows ==
    ASSUME NEW p \in Procs, TypeInv, ProcInv(p), job[p] = "revalidate", step[p] > 1
    PROVE  \A i \in Items : seen[p][i] \in Nat
<1>1. source[p] \in DOMAIN manifests /\ manifests[source[p]] = [plan |-> plan[p], seen |-> seen[p]]
    BY DEF ProcInv, RevalidateInv
<1>2. manifests[source[p]].seen = seen[p]
    BY <1>1
<1> QED
    BY <1>1, <1>2 DEF TypeInv

LEMMA AskKeeps ==
    ASSUME NEW p \in Procs, TypeInv, ProcInv(p), Ask(p)
    PROVE  Fine(p)
<1> DEFINE i == Here(p).item
           holds == Asked(i) = seen[p][i]
<1>1. At(p, "ask") /\ job[p] # "none" /\ Outside /\ Check(p, holds)
    BY DEF Ask, At
<1>2. job[p] = "revalidate" /\ step[p] > 1 /\ i \in Items
    BY <1>1, ThreeKinds, PlacesOfCollect, PlacesOfPublish, PlacesOfRevalidate
<1>3. seen[p][i] \in Nat
    BY <1>2, RevalidationKnows
<1>4. CASE holds /\ Advance(p, 1) /\ UNCHANGED <<files, locals>>
    <2>1. UNCHANGED <<evidence, bundles, manifests, locals>>
        BY <1>4 DEF files
    <2> QED
        BY <1>1, <1>2, <1>4, <2>1, HoldsKeeps
<1>5. CASE ~holds /\ Fail(p, "refused")
    <2>1. JobInv(p)
        BY DEF ProcInv
    <2> HIDE DEF i
    <2>2. ~Excused(p) => FALSE
        BY <1>1, <1>2, <1>3, <1>5, <2>1, Undisturbed DEF NotSeen
    <2> QED
        BY <1>1, <1>5, <2>2, FailKeeps DEF Outside, Fine
<1> QED
    BY <1>1, <1>4, <1>5 DEF Check

LEMMA SameKeeps ==
    ASSUME NEW p \in Procs, TypeInv, ProcInv(p), Same(p)
    PROVE  Fine(p)
<1> DEFINE holds == IF job[p] = "publish" THEN bundles[source[p]] = plan[p]
                    ELSE manifests[source[p]] = [plan |-> plan[p], seen |-> seen[p]]
<1>1. At(p, "same") /\ job[p] # "none" /\ Outside /\ Check(p, holds)
    BY DEF Same, At
<1>2. (job[p] = "publish" /\ step[p] = 12) \/ (job[p] = "revalidate" /\ step[p] > 1)
    BY <1>1, ThreeKinds, PlacesOfCollect, PlacesOfPublish, PlacesOfRevalidate
<1>3. JobInv(p) /\ PublishInv(p) /\ RevalidateInv(p)
    BY DEF ProcInv
<1>4. CASE holds /\ Advance(p, 1) /\ UNCHANGED <<files, locals>>
    <2>1. UNCHANGED <<evidence, bundles, manifests, locals>>
        BY <1>4 DEF files
    <2>2. job[p] = "publish" => bundles[source[p]] = plan[p]
        BY <1>4
    <2> QED
        BY <1>1, <1>2, <1>4, <2>1, <2>2, HoldsKeeps
<1>5. CASE ~holds /\ Fail(p, "refused")
    <2>1. job[p] = "publish" /\ step[p] = 12
        BY <1>2, <1>3, <1>5 DEF RevalidateInv
    <2>2. Len(moments[p]) # 1
        BY <1>3, <1>5, <2>1 DEF PublishInv
    <2>3. Len(moments[p]) \in Nat /\ Len(moments[p]) >= 1
        BY <1>1, <1>3 DEF JobInv, IsSeq
    <2>4. Len(moments[p]) > 1
        <3>1. ASSUME NEW n \in Nat, n >= 1, n # 1 PROVE n > 1
            BY <3>1
        <3> QED
            BY <2>2, <2>3, <3>1
    <2>5. Excused(p)
        BY <2>4 DEF Excused
    <2> QED
        BY <1>1, <1>5, <2>5, FailKeeps DEF Outside, Fine
<1> QED
    BY <1>1, <1>4, <1>5 DEF Check

LEMMA OpenKeeps ==
    ASSUME NEW p \in Procs, TypeInv, ProcInv(p), Open(p)
    PROVE  Fine(p)
<1>1. /\ At(p, "open") /\ job[p] # "none" /\ Advance(p, 1)
      /\ UNCHANGED <<official, evidence, bundles, manifests, changes, moments, settled, source, target>>
    BY DEF Open, At, Outside, files
<1>2. job[p] \in {"publish", "revalidate"} /\ step[p] = 1
    BY <1>1, ThreeKinds, PlacesOfCollect, PlacesOfPublish, PlacesOfRevalidate
<1>3. JobInv(p) /\ PublishInv(p) /\ RevalidateInv(p)
    BY DEF ProcInv
<1>4. CASE job[p] = "publish"
    <2>1. plan' = [plan EXCEPT ![p] = bundles[source[p]]] /\ seen' = seen
        BY <1>4 DEF Open
    <2>2. Quiet(p)
        BY <1>1, <2>1 DEF Quiet, TypeInv
    <2>3. ASSUME job'[p] = job[p], step'[p] = step[p] + 1 PROVE PublishInv(p)'
        <3>1. plan'[p] = bundles[source[p]] /\ step'[p] = 2
            BY <1>2, <2>1, <2>3 DEF TypeInv
        <3>2. source[p] \in DOMAIN bundles
            <4>1. 1 \in 1..Len(moments[p]) /\ Past(moments[p][1])
                BY <1>1, <1>3 DEF JobInv, IsSeq
            <4>2. source[p] \in DOMAIN moments[p][1].bundles
                BY <1>3, <1>4, <4>1 DEF PublishInv
            <4> QED
                BY <4>1, <4>2 DEF Past
        <3>3. IsPlan(bundles[source[p]])
            BY <3>2 DEF TypeInv
        <3>4. /\ \A k \in 1..Len(moments[p]) :
                     /\ source[p] \in DOMAIN moments[p][k].bundles
                     /\ \A i \in Items :
                          moments[p][k].bundles[source[p]].paths[i] \in DOMAIN moments[p][k].evidence
              /\ seen[p][Roster] = NotSeen /\ seen[p][Page] = NotSeen /\ seen[p][Document] = NotSeen
            BY <1>2, <1>3, <1>4 DEF PublishInv
        <3> QED
            BY <1>1, <1>4, <2>1, <2>3, <3>1, <3>3, <3>4 DEF PublishInv, IsPlan
    <2> QED
        BY <1>1, <1>4, <2>2, <2>3, PublishGoesOn
<1>5. CASE job[p] = "revalidate"
    <2> DEFINE m == manifests[source[p]]
    <2>1. /\ plan' = [plan EXCEPT ![p] = m.plan]
          /\ seen' = [seen EXCEPT ![p] = m.seen]
        BY <1>5 DEF Open
    <2>2. /\ source[p] \in DOMAIN manifests /\ m = [plan |-> m.plan, seen |-> m.seen]
          /\ m.seen \in [Items -> Int]
        BY <1>3, <1>5 DEF RevalidateInv, TypeInv
    <2> HIDE DEF m
    <2>3. Quiet(p)
        BY <1>1, <2>1, <2>2 DEF Quiet, TypeInv
    <2>4. plan'[p] = m.plan /\ seen'[p] = m.seen
        BY <2>1 DEF TypeInv
    <2>5. ASSUME job'[p] = job[p], step'[p] = step[p] + 1 PROVE RevalidateInv(p)'
        BY <1>1, <1>5, <2>2, <2>4 DEF RevalidateInv, m
    <2> QED
        BY <1>1, <1>5, <2>3, <2>5, RevalidateGoesOn
<1> QED
    BY <1>2, <1>4, <1>5

\* The present moment holds the files of the plan.
LEMMA JustNow ==
    ASSUME NEW p \in Procs, JobInv(p), PublishInv(p), job[p] = "publish", step[p] \in Nat, step[p] > 2
    PROVE  /\ Len(moments[p]) \in 1..Len(moments[p])
           /\ LET now == moments[p][Len(moments[p])] IN
              /\ \A i \in Items : /\ now.official[i] = Asked(i)
                                  /\ now.evidence[File(p, i)] = evidence[File(p, i)]
              /\ now.bundles[source[p]] = bundles[source[p]]
<1>1. PICK n : n = Len(moments[p])
    OBVIOUS
<1>2. n \in 1..Len(moments[p])
    BY <1>1 DEF JobInv, IsSeq
<1>3. Past(moments[p][n]) /\ Still(moments[p][n])
    BY <1>1, <1>2 DEF JobInv
<1>4. /\ source[p] \in DOMAIN moments[p][n].bundles
      /\ \A i \in Items : moments[p][n].bundles[source[p]].paths[i] \in DOMAIN moments[p][n].evidence
    BY <1>2 DEF PublishInv
<1>5. plan[p].paths = bundles[source[p]].paths
    BY DEF PublishInv
<1>6. \A i \in Items : File(p, i) \in DOMAIN moments[p][n].evidence
    BY <1>3, <1>4, <1>5 DEF Past, File
<1>7. /\ \A i \in Items : /\ moments[p][n].official[i] = Asked(i)
                          /\ moments[p][n].evidence[File(p, i)] = evidence[File(p, i)]
      /\ moments[p][n].bundles[source[p]] = bundles[source[p]]
    BY <1>3, <1>4, <1>6 DEF Still
<1> QED
    BY <1>1, <1>2, <1>7

\* An item of a publication that agrees.
LEMMA ItemAgrees ==
    ASSUME NEW p \in Procs, NEW i \in Items, TypeInv, ProcInv(p), job[p] = "publish",
           \/ step[p] \in {3, 9} /\ i = Roster
           \/ step[p] = 4 /\ i = Page
           \/ step[p] \in {5, 10} /\ i = Document,
           Agrees(p, i), seen' = [seen EXCEPT ![p][i] = Asked(i)],
           settled' = IF seen[p][i] = NotSeen THEN [settled EXCEPT ![p] = Len(moments[p])] ELSE settled,
           UNCHANGED <<official, evidence, bundles, changes, moments, plan, source>>,
           job'[p] = job[p], step'[p] = step[p] + 1
    PROVE  PublishInv(p)'
<1>1. JobInv(p) /\ PublishInv(p) /\ step[p] \in Nat
    BY DEF ProcInv, TypeInv
<1>2. /\ evidence[File(p, i)] = Asked(i) /\ seen[p][i] \in {NotSeen, Asked(i)}
      /\ Asked(i) \in Nat /\ Asked(i) \in Int /\ Asked(Roster) \in Nat
    <2>1. /\ evidence[File(p, i)] = Asked(i) /\ seen[p][i] \in {NotSeen, Asked(i)}
        BY DEF Agrees, File
    <2>2. \A k \in Items : Asked(k) \in 0..changes
        BY DEF TypeInv
    <2>3. changes \in Nat /\ Roster \in Items
        BY DEF TypeInv, Items
    <2> QED
        BY <2>1, <2>2, <2>3
<1>3. /\ seen'[p][i] = Asked(i) /\ \A k \in Items \ {i} : seen'[p][k] = seen[p][k]
      /\ seen'[p] = [seen[p] EXCEPT ![i] = Asked(i)]
    <2>1. PICK v \in Int : v = Asked(i)
        BY <1>2
    <2>2. seen' = [seen EXCEPT ![p][i] = v]
        BY <2>1
    <2>3. /\ seen'[p][i] = v /\ \A k \in Items \ {i} : seen'[p][k] = seen[p][k]
          /\ seen'[p] = [seen[p] EXCEPT ![i] = v]
        BY ONLY p \in Procs, i \in Items, v \in Int, TypeInv, <2>2, SeenIs
    <2> QED
        BY <2>1, <2>3
<1>4. Asked(Roster)' = Asked(Roster)
    BY AskedIs
<1>5. \A k \in Items : File(p, k)' = File(p, k)
    BY DEF File
<1>6. File(p, Roster)' = File(p, Roster) /\ File(p, Page)' = File(p, Page)
      /\ File(p, Document)' = File(p, Document)
    BY <1>5 DEF Items
<1>7. /\ \A k \in 1..Len(moments[p]) :
            /\ source[p] \in DOMAIN moments[p][k].bundles
            /\ \A x \in Items :
                  moments[p][k].bundles[source[p]].paths[x] \in DOMAIN moments[p][k].evidence
      /\ IsPlan(plan[p])
      /\ plan[p].paths = bundles[source[p]].paths /\ plan[p].rev <= bundles[source[p]].rev
      /\ Len(moments[p]) = 1 => plan[p] = bundles[source[p]]
    <2>1. step[p] > 1 /\ step[p] > 2
        OBVIOUS
    <2> QED
        BY <1>1, <2>1 DEF PublishInv
<1>8. Roster # Page /\ Roster # Document /\ Page # Document
    BY DEF Roster, Page, Document
<1>9. CASE step[p] = 3 /\ i = Roster
    <2>1. seen'[p][Page] = NotSeen /\ seen'[p][Document] = NotSeen
        BY <1>1, <1>3, <1>8, <1>9 DEF PublishInv, Items
    <2>2. step'[p] = 4
        BY <1>9
    <2> QED
        BY <1>2, <1>3, <1>4, <1>6, <1>7, <1>9, <2>1, <2>2 DEF PublishInv
<1>10. CASE step[p] = 4 /\ i = Page
    <2>1. /\ seen'[p][Document] = NotSeen
          /\ seen'[p][Roster] \in Nat /\ seen'[p][Roster] <= Asked(Roster)
          /\ seen'[p][Roster] <= evidence[File(p, Roster)]
        BY <1>1, <1>3, <1>8, <1>10 DEF PublishInv, Items
    <2>2. \E k \in 1..Len(moments[p]) : moments[p][k].official[Page] = seen'[p][Page]
        BY <1>1, <1>3, <1>10, JustNow DEF Items
    <2>3. step'[p] = 5
        BY <1>10
    <2> QED
        BY <1>2, <1>3, <1>4, <1>6, <1>7, <1>10, <2>1, <2>2, <2>3 DEF PublishInv
<1>11. CASE step[p] = 5 /\ i = Document
    <2>1. /\ seen'[p][Roster] \in Nat /\ seen'[p][Roster] <= Asked(Roster)
          /\ seen'[p][Roster] <= evidence[File(p, Roster)]
          /\ seen'[p][Page] \in Nat /\ seen'[p][Page] <= evidence[File(p, Page)]
          /\ \E k \in 1..Len(moments[p]) : moments[p][k].official[Page] = seen'[p][Page]
          /\ seen[p][Document] = NotSeen
        BY <1>1, <1>3, <1>8, <1>11 DEF PublishInv, Items
    <2>2. PICK n : n = Len(moments[p])
        OBVIOUS
    <2>3. settled'[p] = n
        BY <1>11, <2>1, <2>2 DEF TypeInv
    <2>4. PICK now : now = moments[p][n]
        OBVIOUS
    <2>5. n \in 1..Len(moments[p]) /\ Then(p)' = now
        BY <1>1, <1>11, <2>2, <2>3, <2>4, JustNow DEF Then
    <2>6. /\ \A k \in Items : /\ now.official[k] = Asked(k)
                              /\ now.evidence[File(p, k)] = evidence[File(p, k)]
          /\ now.bundles[source[p]] = bundles[source[p]]
        BY <1>1, <1>11, <2>2, <2>4, JustNow
    <2>7. /\ now.official[Roster] = Asked(Roster) /\ now.official[Document] = Asked(Document)
          /\ now.evidence[File(p, Roster)] = evidence[File(p, Roster)]
          /\ now.evidence[File(p, Page)] = evidence[File(p, Page)]
          /\ now.evidence[File(p, Document)] = evidence[File(p, Document)]
        BY <2>6 DEF Items
    <2>8. seen'[p][Document] = Asked(Document) /\ seen'[p][Document] \in Nat
          /\ evidence[File(p, Document)] = Asked(Document)
        BY <1>2, <1>3, <1>11
    <2>9. \A k \in Items : seen'[p][k] <= now.evidence[File(p, k)]
        BY <2>1, <2>7, <2>8 DEF Items
    <2>10. plan[p].rev <= now.bundles[source[p]].rev
        BY <1>7, <2>6
    <2>11. step'[p] = 6
        BY <1>11
    <2>12. \A k \in Items : seen'[p][k] <= Then(p)'.evidence[File(p, k)']
        BY <1>5, <2>5, <2>9
    <2>13. /\ settled'[p] \in 1..Len(moments'[p]) /\ seen'[p][Document] \in Nat
           /\ seen'[p][Roster] <= Then(p)'.official[Roster]
           /\ Then(p)'.official[Document] = seen'[p][Document]
           /\ Then(p)'.evidence[File(p, Document)'] = seen'[p][Document]
           /\ plan'[p].rev <= Then(p)'.bundles[source'[p]].rev
        BY <1>6, <2>1, <2>3, <2>5, <2>7, <2>8, <2>10
    <2>14. /\ seen'[p][Roster] \in Nat /\ seen'[p][Roster] <= Asked(Roster)'
           /\ seen'[p][Roster] <= evidence'[File(p, Roster)']
           /\ seen'[p][Page] \in Nat /\ seen'[p][Page] <= evidence'[File(p, Page)']
           /\ \E k \in 1..Len(moments'[p]) : moments'[p][k].official[Page] = seen'[p][Page]
        BY <1>4, <1>6, <2>1
    <2>15. /\ \A k \in 1..Len(moments'[p]) :
                 /\ source'[p] \in DOMAIN moments'[p][k].bundles
                 /\ \A x \in Items : moments'[p][k].bundles[source'[p]].paths[x]
                                        \in DOMAIN moments'[p][k].evidence
           /\ IsPlan(plan'[p])
           /\ plan'[p].paths = bundles'[source'[p]].paths
           /\ plan'[p].rev <= bundles'[source'[p]].rev
           /\ Len(moments'[p]) = 1 => plan'[p] = bundles'[source'[p]]
        BY <1>7
    <2>16. /\ ~(step'[p] <= 3) /\ ~(step'[p] <= 4) /\ ~(step'[p] <= 5)
           /\ ~(step'[p] > 9) /\ ~(step'[p] > 12) /\ ~(step'[p] > 13) /\ ~(step'[p] > 14)
        BY <2>11
    <2> QED
        BY <2>12, <2>13, <2>14, <2>15, <2>16 DEF PublishInv
<1>12. CASE step[p] \in {9, 10}
    <2>1. seen[p][i] \in Nat
        BY <1>1, <1>12 DEF PublishInv
    <2>2. seen[p][i] = Asked(i) /\ settled' = settled
        BY <1>2, <2>1 DEF NotSeen
    <2>3. seen'[p] = seen[p]
        BY <1>3, <2>2 DEF TypeInv
    <2>4. step[p] = 9 => Then(p).official[Roster] = seen[p][Roster]
        BY <1>1, <1>12, <2>2, BackThen
    <2> QED
        BY <1>1, <1>12, <2>2, <2>3, <2>4, PublishStays
<1> QED
    BY <1>9, <1>10, <1>11, <1>12

LEMMA AgreeKeeps ==
    ASSUME NEW p \in Procs, TypeInv, ProcInv(p), Agree(p)
    PROVE  Fine(p)
<1> DEFINE i == Here(p).item
<1>1. /\ At(p, "agree") /\ job[p] # "none"
      /\ UNCHANGED <<official, moments, changes>>
      /\ \/ /\ Agrees(p, i)
            /\ seen' = [seen EXCEPT ![p][i] = Asked(i)]
            /\ settled' = IF seen[p][i] = NotSeen THEN [settled EXCEPT ![p] = Len(moments[p])]
                          ELSE settled
            /\ Advance(p, 1)
            /\ UNCHANGED <<files, plan, source, target>>
         \/ ~Agrees(p, i) /\ Fail(p, "refused") /\ UNCHANGED settled
    BY DEF Agree, At
<1>2. /\ i \in Items
      /\ \/ job[p] = "collect" /\ step[p] > 9
         \/ /\ job[p] = "publish"
            /\ \/ step[p] \in {3, 9} /\ i = Roster
               \/ step[p] = 4 /\ i = Page
               \/ step[p] \in {5, 10} /\ i = Document
         \/ job[p] = "revalidate" /\ step[p] > 1
    BY <1>1, ThreeKinds, PlacesOfCollect, PlacesOfPublish, PlacesOfRevalidate DEF Items
<1>3. JobInv(p) /\ CollectInv(p) /\ PublishInv(p) /\ RevalidateInv(p) /\ step[p] \in Nat
    BY DEF ProcInv, TypeInv
<1> HIDE DEF i
<1>4. CASE ~Agrees(p, i) /\ Fail(p, "refused") /\ UNCHANGED settled
    <2>1. Excused(p)
        <3>1. CASE job[p] = "collect"
            BY <1>3, <3>1 DEF CollectInv, Excused
        <3>2. CASE job[p] # "collect"
            BY <1>1, <1>2, <1>3, <1>4, <3>2, Undisturbed DEF Agrees
        <3> QED
            BY <3>1, <3>2
    <2> QED
        BY <1>1, <1>4, <2>1, FailKeeps DEF Fine
<1>5. CASE /\ Agrees(p, i)
           /\ seen' = [seen EXCEPT ![p][i] = Asked(i)]
           /\ settled' = IF seen[p][i] = NotSeen THEN [settled EXCEPT ![p] = Len(moments[p])]
                         ELSE settled
           /\ Advance(p, 1)
           /\ UNCHANGED <<files, plan, source, target>>
    <2>1. UNCHANGED <<official, evidence, bundles, manifests, changes, moments, plan, source, target>>
        BY <1>1, <1>5 DEF files
    <2>2. Asked(i) \in Nat /\ Asked(i) \in Int /\ Asked(i) <= changes
        BY <1>2 DEF TypeInv
    <2>3. /\ seen' \in [Procs -> [Items -> Int]]
          /\ \A q \in Procs \ {p} : seen'[q] = seen[q]
          /\ seen'[p] = [seen[p] EXCEPT ![i] = Asked(i)]
        BY <1>2, <1>5, <2>2, SeenIs
    <2>4. DOMAIN settled' = Procs /\ \A q \in Procs \ {p} : settled'[q] = settled[q]
        BY <1>5 DEF TypeInv
    <2>5. Quiet(p)
        BY <2>1, <2>3, <2>4 DEF Quiet, TypeInv
    <2>6. CASE job[p] = "collect"
        <3>1. ASSUME job'[p] = job[p], step'[p] = step[p] + 1 PROVE CollectInv(p)'
            <4>1. \A k \in Items : seen'[p][k] <= changes
                BY <1>2, <1>3, <2>2, <2>3, <2>6 DEF CollectInv, TypeInv
            <4> QED
                BY <1>2, <1>3, <2>1, <2>6, <3>1, <4>1 DEF CollectInv
        <3> QED
            BY <1>5, <2>5, <2>6, <3>1, CollectGoesOn
    <2>7. CASE job[p] = "publish"
        <3>1. ASSUME job'[p] = job[p], step'[p] = step[p] + 1 PROVE PublishInv(p)'
            BY <1>2, <1>5, <2>1, <2>7, <3>1, ItemAgrees
        <3> QED
            BY <1>5, <2>5, <2>7, <3>1, PublishGoesOn
    <2>8. CASE job[p] = "revalidate"
        <3>1. step[p] > 1 /\ seen[p][i] \in Nat
            BY <1>2, <2>8, RevalidationKnows
        <3>2. seen[p][i] = Asked(i)
            BY <1>5, <3>1 DEF Agrees, NotSeen
        <3>3. seen'[p] = seen[p]
            BY <2>3, <3>2 DEF TypeInv
        <3>4. ASSUME job'[p] = job[p], step'[p] = step[p] + 1 PROVE RevalidateInv(p)'
            BY <1>3, <2>1, <2>8, <3>1, <3>3, <3>4 DEF RevalidateInv
        <3> QED
            BY <1>5, <2>5, <2>8, <3>4, RevalidateGoesOn
    <2> QED
        BY <1>2, <2>6, <2>7, <2>8
<1> QED
    BY <1>1, <1>4, <1>5 DEF i

\* A link adds a file and takes none away.
LEMMA LinkedIs ==
    ASSUME NEW shelf, NEW name, NEW content
    PROVE  /\ Adds(Linked(shelf, name, content), shelf) /\ name \in DOMAIN Linked(shelf, name, content)
           /\ \A n \in DOMAIN Linked(shelf, name, content) \ DOMAIN shelf :
                 Linked(shelf, name, content)[n] = content
BY DEF Linked, Extended, Adds

LEMMA NothingAdded == \A shelf : Adds(shelf, shelf)
BY DEF Adds

LEMMA FilesGrow ==
    ASSUME TypeInv, JobsTyped', UNCHANGED <<official, changes>>,
           Adds(evidence', evidence), Adds(bundles', bundles), Adds(manifests', manifests),
           \A n \in DOMAIN evidence' \ DOMAIN evidence : evidence'[n] \in Int /\ evidence'[n] <= changes,
           \A n \in DOMAIN bundles' \ DOMAIN bundles :
               /\ IsPlan(bundles'[n]) /\ bundles'[n].rev <= changes
               /\ \A i \in Items : bundles'[n].paths[i] \in DOMAIN evidence,
           \A n \in DOMAIN manifests' \ DOMAIN manifests :
               /\ manifests'[n] = [plan |-> manifests'[n].plan, seen |-> manifests'[n].seen]
               /\ manifests'[n].seen \in [Items -> Nat]
    PROVE  TypeInv' /\ Grows
<1>1. \A i \in Items : Asked(i)' = Asked(i)
    BY AskedIs DEF Items
<1>2. Grows
    BY <1>1 DEF Grows, TypeInv
<1>3. \A n \in DOMAIN evidence' : evidence'[n] \in Int /\ evidence'[n] <= changes
    BY DEF TypeInv, Adds
<1>4. ASSUME NEW n \in DOMAIN bundles'
      PROVE  /\ IsPlan(bundles'[n]) /\ bundles'[n].rev <= changes
             /\ \A i \in Items : bundles'[n].paths[i] \in DOMAIN evidence'
    <2>1. CASE n \in DOMAIN bundles
        <3>1. bundles'[n] = bundles[n]
            BY <2>1 DEF Adds
        <3> QED
            BY <2>1, <3>1 DEF TypeInv, Adds
    <2>2. CASE n \notin DOMAIN bundles
        BY <2>2 DEF Adds
    <2> QED
        BY <2>1, <2>2
<1>5. ASSUME NEW n \in DOMAIN manifests'
      PROVE  /\ manifests'[n] = [plan |-> manifests'[n].plan, seen |-> manifests'[n].seen]
             /\ manifests'[n].seen \in [Items -> Nat]
    <2>1. CASE n \in DOMAIN manifests
        BY <2>1 DEF TypeInv, Adds
    <2> QED
        BY <2>1
<1>6. \A i \in Items : Asked(i)' \in 0..changes
    BY <1>1 DEF TypeInv
<1>7. changes' \in Nat /\ DOMAIN official' = Items /\ official'[Roster] \in [kept : Nat, quote : Nat]
    BY DEF TypeInv
<1>8. TypeInv'
    BY <1>3, <1>4, <1>5, <1>6, <1>7 DEF TypeInv, JobsTyped
<1> QED
    BY <1>2, <1>8

\* What a collection or a publication links.
LEMMA LinkCollects ==
    ASSUME NEW p \in Procs, TypeInv, ProcInv(p), job[p] = "collect", At(p, "link"),
           LET shelf == Linked(Shelf(p), target[p], Content(p))
               item  == Here(p).item
           IN  /\ evidence'  = IF item \in Items THEN shelf ELSE evidence
               /\ bundles'   = IF item = "bundle" THEN shelf ELSE bundles
               /\ manifests' = IF item = "manifest" THEN shelf ELSE manifests,
           plan' = Placed(p, target[p]), Advance(p, 1), UNCHANGED <<seen, source, target>>, Outside
    PROVE  Fine(p)
<1> DEFINE item == Here(p).item
           shelf == Linked(Shelf(p), target[p], Content(p))
<1>1. /\ \/ step[p] = 3 /\ item = Roster
         \/ step[p] = 6 /\ item = Page
         \/ step[p] = 9 /\ item = Document
         \/ step[p] > 9 /\ item \in {"draft", "bundle"}
      /\ step[p] \in Nat
    BY ThreeKinds, PlacesOfCollect
<1>2. CollectInv(p)
    BY DEF ProcInv
<1>3. /\ source[p] = NoName /\ \A i \in Items : seen[p][i] <= changes /\ seen[p][i] \in Int
      /\ IsPlan(plan[p]) /\ plan[p].rev <= changes /\ DOMAIN plan[p].paths = Items
      /\ step[p] > 3 => plan[p].paths[Roster] \in DOMAIN evidence
      /\ step[p] > 6 => plan[p].paths[Page] \in DOMAIN evidence
      /\ step[p] > 9 => plan[p].paths[Document] \in DOMAIN evidence
    BY <1>2 DEF CollectInv, TypeInv
<1>4. /\ DOMAIN Placed(p, target[p]) = Procs
      /\ \A q \in Procs \ {p} : Placed(p, target[p])[q] = plan[q]
      /\ item \notin Items => Placed(p, target[p]) = plan
      /\ item \in Items =>
            /\ IsPlan(Placed(p, target[p])[p]) /\ Placed(p, target[p])[p].rev = 0
            /\ Placed(p, target[p])[p].paths = [plan[p].paths EXCEPT ![item] = target[p]]
    BY <1>3, PlacedIs
<1>5. UNCHANGED <<official, changes, moments, settled, seen, source, target>>
    BY DEF Outside
<1>6. JobsTyped'
    BY <1>4, <1>5, AdvanceIs DEF JobsTyped, TypeInv
<1>7. Others(p)
    BY <1>4, <1>5, AdvanceIs DEF Others, Apart
<1>8. Adds(shelf, Shelf(p)) /\ target[p] \in DOMAIN shelf
      /\ \A n \in DOMAIN shelf \ DOMAIN Shelf(p) : shelf[n] = Content(p)
    BY LinkedIs
<1>9. /\ item \in Items => Shelf(p) = evidence /\ Content(p) = seen[p][item]
      /\ item = "bundle" => Shelf(p) = bundles /\ Content(p) = plan[p]
      /\ item # "manifest"
    BY <1>1 DEF Shelf, Content, Items, Roster, Page, Document
<1>10. /\ evidence'  = IF item \in Items THEN shelf ELSE evidence
       /\ bundles'   = IF item = "bundle" THEN shelf ELSE bundles
       /\ manifests' = manifests
    BY <1>9
<1>11. "bundle" \notin Items /\ "draft" \notin Items
    BY DEF Items, Roster, Page, Document
<1> HIDE DEF item, shelf
<1>12. TypeInv' /\ Grows
    <2>1. Adds(evidence', evidence) /\ Adds(bundles', bundles) /\ Adds(manifests', manifests)
        BY <1>8, <1>9, <1>10, <1>11, NothingAdded
    <2>2. \A n \in DOMAIN evidence' \ DOMAIN evidence : evidence'[n] \in Int /\ evidence'[n] <= changes
        BY <1>3, <1>8, <1>9, <1>10
    <2>3. ASSUME NEW n \in DOMAIN bundles' \ DOMAIN bundles
          PROVE  /\ IsPlan(bundles'[n]) /\ bundles'[n].rev <= changes
                 /\ \A i \in Items : bundles'[n].paths[i] \in DOMAIN evidence
        <3>1. item = "bundle" /\ bundles'[n] = plan[p]
            BY <1>8, <1>9, <1>10
        <3>2. step[p] > 9
            BY <1>1, <1>11, <3>1 DEF Items
        <3>3. \A i \in Items : plan[p].paths[i] \in DOMAIN evidence
            BY <1>1, <1>3, <3>2 DEF Items
        <3> QED
            BY <1>3, <3>1, <3>3
    <2>4. \A n \in DOMAIN manifests' \ DOMAIN manifests :
               /\ manifests'[n] = [plan |-> manifests'[n].plan, seen |-> manifests'[n].seen]
               /\ manifests'[n].seen \in [Items -> Nat]
        BY <1>10
    <2> QED
        BY <1>5, <1>6, <2>1, <2>2, <2>3, <2>4, FilesGrow
<1>13. ASSUME job'[p] = job[p], step'[p] = step[p] + 1 PROVE CollectInv(p)'
    <2>1. \A i \in Items : seen'[p][i] <= changes'
        BY <1>3, <1>5
    <2>2. \A n \in DOMAIN evidence : n \in DOMAIN evidence'
        BY <1>12 DEF Grows, Adds
    <2>3. CASE item \in Items
        <3>1. /\ IsPlan(plan'[p]) /\ plan'[p].rev = 0
              /\ plan'[p].paths = [plan[p].paths EXCEPT ![item] = target[p]]
            BY <1>4, <2>3
        <3>2. DOMAIN plan'[p].paths = Items /\ plan'[p].paths[item] = target[p]
              /\ \A k \in Items \ {item} : plan'[p].paths[k] = plan[p].paths[k]
            BY <1>3, <2>3, <3>1
        <3>3. target[p] \in DOMAIN evidence' /\ 0 <= changes'
            BY <1>5, <1>8, <1>10, <2>3 DEF TypeInv
        <3>4. /\ step'[p] > 3 => plan'[p].paths[Roster] \in DOMAIN evidence'
              /\ step'[p] > 6 => plan'[p].paths[Page] \in DOMAIN evidence'
              /\ step'[p] > 9 => plan'[p].paths[Document] \in DOMAIN evidence'
            BY <1>1, <1>3, <1>11, <1>13, <2>2, <2>3, <3>2, <3>3 DEF Items, Roster, Page, Document
        <3> QED
            BY <1>3, <1>5, <2>1, <3>1, <3>2, <3>3, <3>4 DEF CollectInv
    <2>4. CASE item \notin Items
        <3>1. plan'[p] = plan[p] /\ step[p] > 9
            BY <1>1, <1>4, <2>4 DEF Items
        <3>2. \A i \in Items : plan[p].paths[i] \in DOMAIN evidence'
            BY <1>1, <1>3, <2>2, <3>1 DEF Items
        <3> QED
            BY <1>3, <1>5, <2>1, <3>1, <3>2 DEF CollectInv, Items
    <2> QED
        BY <2>3, <2>4
<1>14. ProcInv(p)'
    <2>1. job[p] # "none" /\ moments'[p] = moments[p]
        BY <1>5
    <2>2. job'[p] = job[p] => PublishInv(p)' /\ RevalidateInv(p)'
        BY DEF PublishInv, RevalidateInv
    <2> QED
        BY <1>12, <1>13, <2>1, <2>2, GoesOn
<1> QED
    BY <1>7, <1>12, <1>14 DEF Fine

LEMMA LinkPublishes ==
    ASSUME NEW p \in Procs, TypeInv, ProcInv(p), job[p] = "publish", At(p, "link"),
           LET shelf == Linked(Shelf(p), target[p], Content(p))
               item  == Here(p).item
           IN  /\ evidence'  = IF item \in Items THEN shelf ELSE evidence
               /\ bundles'   = IF item = "bundle" THEN shelf ELSE bundles
               /\ manifests' = IF item = "manifest" THEN shelf ELSE manifests,
           plan' = Placed(p, target[p]), Advance(p, 1), UNCHANGED <<seen, source, target>>, Outside
    PROVE  Fine(p)
<1> DEFINE shelf == Linked(Shelf(p), target[p], Content(p))
           made  == [plan |-> plan[p], seen |-> seen[p]]
<1>1. step[p] = 16 /\ Here(p).item = "manifest" /\ Len(Program(job[p])) = 16
    BY ThreeKinds, PlacesOfPublish
<1>2. "manifest" \notin Items
    BY DEF Items, Roster, Page, Document
<1>3. Shelf(p) = manifests /\ Content(p) = made
    BY <1>1, <1>2 DEF Shelf, Content
<1>4. evidence' = evidence /\ bundles' = bundles /\ manifests' = shelf /\ plan' = plan
    BY <1>1, <1>2 DEF Placed
<1>5. /\ Adds(shelf, manifests)
      /\ \A n \in DOMAIN shelf \ DOMAIN manifests : shelf[n] = made
    BY <1>3, LinkedIs
<1>6. seen[p] \in [Items -> Nat]
    <2>1. step[p] > 3 /\ step[p] > 4 /\ step[p] > 5
        BY <1>1
    <2>2. seen[p][Roster] \in Nat /\ seen[p][Page] \in Nat /\ seen[p][Document] \in Nat
        BY <2>1 DEF ProcInv, PublishInv
    <2>3. seen[p] \in [Items -> Int]
        BY DEF TypeInv
    <2> QED
        BY <2>2, <2>3 DEF Items
<1> HIDE DEF shelf
<1>7. UNCHANGED <<official, changes, moments, settled, seen, source, target>>
    BY DEF Outside
<1>8. JobsTyped'
    BY <1>4, <1>7, AdvanceIs DEF JobsTyped, TypeInv
<1>9. Others(p)
    BY <1>4, <1>7, AdvanceIs DEF Others, Apart
<1>10. TypeInv' /\ Grows
    <2>1. Adds(evidence', evidence) /\ Adds(bundles', bundles) /\ Adds(manifests', manifests)
        BY <1>4, <1>5, NothingAdded
    <2>2. \A n \in DOMAIN manifests' \ DOMAIN manifests :
               /\ manifests'[n] = [plan |-> manifests'[n].plan, seen |-> manifests'[n].seen]
               /\ manifests'[n].seen \in [Items -> Nat]
        BY <1>4, <1>5, <1>6
    <2> HIDE DEF made
    <2> QED
        BY <1>4, <1>7, <1>8, <2>1, <2>2, FilesGrow
<1>11. ProcInv(p)'
    <2>1. job'[p] = "none" \/ ~(step[p] + 1 > Len(Program(job[p])))
        BY AdvanceIs
    <2>2. step[p] + 1 > Len(Program(job[p]))
        <3>1. ASSUME NEW m, NEW n, m = 16, n = 16 PROVE m + 1 > n
            BY <3>1
        <3> QED
            BY <1>1, <3>1
    <2>3. job'[p] # job[p]
        BY <2>1, <2>2
    <2> QED
        BY <1>7, <1>10, <2>3, GoesOn
<1> QED
    BY <1>9, <1>10, <1>11 DEF Fine

LEMMA LinkKeeps ==
    ASSUME NEW p \in Procs, TypeInv, ProcInv(p), Link(p)
    PROVE  Fine(p)
<1>1. At(p, "link") /\ job[p] # "none" /\ Outside
    BY DEF Link, At
<1>2. job[p] \in {"collect", "publish"}
    BY <1>1, ThreeKinds, PlacesOfRevalidate
<1> DEFINE shelf == Linked(Shelf(p), target[p], Content(p))
           item  == Here(p).item
<1>3. CASE /\ evidence'  = IF item \in Items THEN shelf ELSE evidence
           /\ bundles'   = IF item = "bundle" THEN shelf ELSE bundles
           /\ manifests' = IF item = "manifest" THEN shelf ELSE manifests
           /\ plan' = Placed(p, target[p])
           /\ Advance(p, 1)
           /\ UNCHANGED <<seen, source, target>>
    <2>1. CASE job[p] = "collect"
        BY <1>1, <1>3, <2>1, LinkCollects
    <2>2. CASE job[p] = "publish"
        BY <1>1, <1>3, <2>2, LinkPublishes
    <2> QED
        BY <1>2, <2>1, <2>2
<1>4. CASE Fail(p, "occupied")
    BY <1>1, <1>4, FailKeeps DEF Outside, Fine
<1> QED
    BY <1>3, <1>4 DEF Link

\* Whatever p does, what it knows is right afterwards.
JobStep(p) ==
    \/ \E j \in Jobs : Start(p, j)
    \/ Fetch(p) \/ Unanswered(p) \/ Look(p) \/ Link(p) \/ Open(p) \/ Reopen(p)
    \/ Agree(p) \/ Keep(p) \/ Ask(p) \/ Same(p) \/ Clear(p)

LEMMA JobKeeps ==
    ASSUME IInv, NEW p \in Procs, JobStep(p)
    PROVE  IInv'
<1>1. TypeInv /\ \A q \in Procs : ProcInv(q)
    BY DEF IInv
<1>2. Fine(p)
    BY <1>1, StartKeeps, FetchKeeps, UnansweredKeeps, LookKeeps, LinkKeeps, OpenKeeps, ReopenKeeps,
       AgreeKeeps, KeepKeeps, AskKeeps, SameKeeps, ClearKeeps DEF JobStep
<1>3. TypeInv' /\ Grows /\ Others(p) /\ ProcInv(p)'
    BY <1>2 DEF Fine
<1>4. ASSUME NEW q \in Procs, q # p PROVE ProcInv(q)'
    <2>1. Apart(q) /\ changes' \in Nat
        BY <1>3, <1>4 DEF Others, TypeInv
    <2> QED
        BY <1>1, <1>3, <2>1, OthersKeep
<1> QED
    BY <1>3, <1>4 DEF IInv

-----------------------------------------------------------------------------
\* The world

\* Versions grow, files stay where they are, and every job notices.
Happens(new) ==
    /\ \A i \in Items : Asked(i)' \in Int /\ Asked(i) <= Asked(i)' /\ new.official[i] = Asked(i)'
    /\ DOMAIN evidence' = DOMAIN evidence /\ new.evidence = evidence'
    /\ \A n \in DOMAIN evidence : evidence'[n] \in Int /\ evidence[n] <= evidence'[n]
    /\ DOMAIN bundles' = DOMAIN bundles /\ new.bundles = bundles'
    /\ \A n \in DOMAIN bundles : /\ IsPlan(bundles'[n]) /\ bundles'[n].paths = bundles[n].paths
                                 /\ bundles[n].rev <= bundles'[n].rev
    /\ changes' = changes + 1 /\ Noticed(new)
    /\ UNCHANGED <<manifests, job, step, seen, plan, source, target, outcome, settled>>

LEMMA Appended ==
    ASSUME NEW s, IsSeq(s), NEW e
    PROVE  /\ IsSeq(Append(s, e)) /\ Len(Append(s, e)) = Len(s) + 1
           /\ \A k \in 1..Len(s) : Append(s, e)[k] = s[k]
           /\ Append(s, e)[Len(s) + 1] = e
<1> DEFINE S == {s[k] : k \in DOMAIN s}
           T == S \cup {e}
           a == Append(s, e)
<1>1. s \in Seq(S)
    BY DEF IsSeq
<1>2. s \in Seq(T) /\ e \in T
    BY <1>1
<1> HIDE DEF S, T
<1>3. /\ a \in Seq(T) /\ Len(a) = Len(s) + 1
      /\ \A k \in 1..Len(s) : a[k] = s[k]
      /\ a[Len(s) + 1] = e
    BY <1>2
<1>4. a \in Seq({a[k] : k \in DOMAIN a})
    <2> HIDE DEF a
    <2> QED
        BY <1>3
<1> QED
    BY <1>3, <1>4 DEF IsSeq

LEMMA MomentsAge ==
    ASSUME NEW now, NEW new, TypeInv, Past(now), Happens(new)
    PROVE  Past(now)'
<1>1. \A i \in Items : Asked(i) \in Int /\ Asked(i)' \in Int /\ Asked(i) <= Asked(i)'
    BY DEF TypeInv, Happens
<1>2. \A i \in Items : now.official[i] \in Int /\ now.official[i] <= Asked(i)'
    BY <1>1 DEF Past
<1>3. ASSUME NEW x \in DOMAIN now.evidence
      PROVE  x \in DOMAIN evidence' /\ now.evidence[x] \in Int /\ now.evidence[x] <= evidence'[x]
    BY DEF Past, Happens, TypeInv
<1>4. ASSUME NEW n \in DOMAIN now.bundles
      PROVE  /\ n \in DOMAIN bundles' /\ IsPlan(now.bundles[n])
             /\ now.bundles[n].paths = bundles'[n].paths /\ now.bundles[n].rev <= bundles'[n].rev
    <2>1. /\ n \in DOMAIN bundles /\ IsPlan(now.bundles[n])
          /\ now.bundles[n].paths = bundles[n].paths /\ now.bundles[n].rev <= bundles[n].rev
        BY DEF Past
    <2>2. /\ n \in DOMAIN bundles' /\ IsPlan(bundles'[n]) /\ bundles'[n].paths = bundles[n].paths
          /\ bundles[n].rev <= bundles'[n].rev /\ IsPlan(bundles[n])
        BY <2>1 DEF Happens, TypeInv
    <2>3. now.bundles[n].rev \in Int /\ bundles[n].rev \in Int /\ bundles'[n].rev \in Int
        BY <2>1, <2>2 DEF IsPlan
    <2> QED
        BY <2>1, <2>2, <2>3
<1> QED
    BY <1>2, <1>3, <1>4 DEF Past

LEMMA MomentIsNew ==
    ASSUME NEW new, TypeInv, TypeInv', Happens(new)
    PROVE  Past(new)' /\ Still(new)'
<1>1. \A i \in Items : Asked(i)' \in Int /\ new.official[i] = Asked(i)'
    BY DEF Happens
<1>2. /\ new.evidence = evidence' /\ \A x \in DOMAIN evidence' : evidence'[x] \in Int
      /\ new.bundles = bundles' /\ \A n \in DOMAIN bundles' : IsPlan(bundles'[n])
    BY DEF Happens, TypeInv
<1> QED
    BY <1>1, <1>2 DEF Past, Still, IsPlan

\* An active job has one moment more.
LEMMA OneMoreMoment ==
    ASSUME NEW p \in Procs, NEW new, TypeInv, JobInv(p), job[p] # "none", Happens(new)
    PROVE  /\ IsSeq(moments'[p]) /\ Len(moments'[p]) = Len(moments[p]) + 1
           /\ Len(moments[p]) \in Nat /\ Len(moments[p]) >= 1
           /\ \A k \in 1..Len(moments[p]) : moments'[p][k] = moments[p][k]
           /\ moments'[p][Len(moments[p]) + 1] = new
<1>1. moments'[p] = Append(moments[p], new)
    BY DEF Happens, Noticed
<1>2. IsSeq(moments[p]) /\ Len(moments[p]) >= 1
    BY DEF JobInv
<1>3. Len(moments[p]) \in Nat
    BY <1>2 DEF IsSeq
<1> QED
    BY <1>1, <1>2, <1>3, Appended

LEMMA JobNotices ==
    ASSUME NEW p \in Procs, NEW new, TypeInv, TypeInv', JobInv(p), job[p] # "none", Happens(new)
    PROVE  JobInv(p)'
<1>1. /\ step[p] \in 1..Len(Program(job[p])) /\ outcome[p] = "none"
      /\ \A k \in 1..Len(moments[p]) : Past(moments[p][k])
    BY DEF JobInv
<1>2. PICK n : n = Len(moments[p])
    OBVIOUS
<1>3. /\ IsSeq(moments'[p]) /\ Len(moments'[p]) = n + 1 /\ n \in Nat /\ n >= 1
      /\ \A k \in 1..n : moments'[p][k] = moments[p][k]
      /\ moments'[p][n + 1] = new
    BY <1>2, OneMoreMoment
<1>4. ASSUME NEW k \in 1..(n + 1) PROVE Past(moments[p][k])'
    <2>1. CASE k \in 1..n
        <3>1. PICK now : now = moments[p][k]
            OBVIOUS
        <3>2. Past(now)'
            BY <1>1, <1>2, <2>1, <3>1, MomentsAge
        <3>3. moments'[p][k] = now
            BY <1>3, <2>1, <3>1
        <3> QED
            BY <3>2, <3>3 DEF Past
    <2>2. CASE k = n + 1
        BY <1>3, <2>2, MomentIsNew DEF Past
    <2> QED
        BY <1>3, <2>1, <2>2
<1>5. Still(moments[p][Len(moments[p])])'
    <2>1. moments'[p][Len(moments'[p])] = new
        BY <1>3
    <2> QED
        BY <2>1, MomentIsNew DEF Still
<1>6. /\ step'[p] \in 1..Len(Program(job'[p])) /\ outcome'[p] = "none" /\ Len(moments'[p]) >= 1
    BY <1>1, <1>3 DEF Happens
<1>7. \A k \in 1..Len(moments'[p]) : Past(moments[p][k])'
    BY <1>3, <1>4
<1> QED
    BY <1>3, <1>5, <1>6, <1>7 DEF JobInv

LEMMA PublicationNotices ==
    ASSUME NEW p \in Procs, NEW new, TypeInv, TypeInv', JobInv(p), PublishInv(p),
           job[p] = "publish", Happens(new)
    PROVE  PublishInv(p)'
<1>1. PICK n : n = Len(moments[p])
    OBVIOUS
<1>2. /\ Len(moments'[p]) = n + 1 /\ n \in Nat /\ n >= 1
      /\ \A k \in 1..n : moments'[p][k] = moments[p][k]
      /\ moments'[p][n + 1] = new
    BY <1>1, OneMoreMoment
<1>3. UNCHANGED <<step, seen, plan, source, settled, job>> /\ step[p] \in Nat
    BY DEF Happens, TypeInv
<1>4. source[p] \in DOMAIN bundles
    <2>1. 1 \in 1..Len(moments[p]) /\ Past(moments[p][1])
        BY <1>1, <1>2 DEF JobInv
    <2> QED
        BY <2>1 DEF PublishInv, Past
<1>5. /\ source[p] \in DOMAIN new.bundles
      /\ \A i \in Items : new.bundles[source[p]].paths[i] \in DOMAIN new.evidence
    BY <1>4 DEF Happens, TypeInv
<1>6. ASSUME NEW k \in 1..Len(moments'[p])
      PROVE  /\ source[p] \in DOMAIN moments'[p][k].bundles
             /\ \A i \in Items :
                   moments'[p][k].bundles[source[p]].paths[i] \in DOMAIN moments'[p][k].evidence
    <2>1. CASE k \in 1..n
        BY <1>1, <1>2, <2>1 DEF PublishInv
    <2>2. CASE k = n + 1
        BY <1>2, <1>5, <2>2
    <2> QED
        BY <1>2, <2>1, <2>2
<1>7. ASSUME step[p] > 1
      PROVE  /\ IsPlan(plan[p]) /\ plan[p].paths = bundles'[source[p]].paths
             /\ plan[p].rev <= bundles'[source[p]].rev
             /\ \A i \in Items : /\ File(p, i) \in DOMAIN evidence
                                 /\ evidence[File(p, i)] \in Int /\ evidence'[File(p, i)] \in Int
                                 /\ evidence[File(p, i)] <= evidence'[File(p, i)]
    <2>1. /\ IsPlan(plan[p]) /\ plan[p].paths = bundles[source[p]].paths
          /\ plan[p].rev <= bundles[source[p]].rev
        BY <1>7 DEF PublishInv
    <2>2. /\ IsPlan(bundles[source[p]]) /\ IsPlan(bundles'[source[p]])
          /\ bundles'[source[p]].paths = bundles[source[p]].paths
          /\ bundles[source[p]].rev <= bundles'[source[p]].rev
        BY <1>4 DEF Happens, TypeInv
    <2>3. plan[p].rev \in Int /\ bundles[source[p]].rev \in Int /\ bundles'[source[p]].rev \in Int
        BY <2>1, <2>2 DEF IsPlan
    <2>4. \A i \in Items : File(p, i) \in DOMAIN evidence
        BY <1>4, <2>1 DEF TypeInv, File
    <2>5. \A i \in Items : /\ evidence[File(p, i)] \in Int /\ evidence'[File(p, i)] \in Int
                           /\ evidence[File(p, i)] <= evidence'[File(p, i)]
        BY <2>4 DEF TypeInv, Happens
    <2> QED
        BY <2>1, <2>2, <2>3, <2>4, <2>5
<1>8. Len(moments'[p]) # 1
    BY <1>2
<1>9. \A i \in Items : File(p, i)' = File(p, i)
    BY <1>3 DEF File
<1>10. File(p, Roster)' = File(p, Roster) /\ File(p, Page)' = File(p, Page)
       /\ File(p, Document)' = File(p, Document)
    BY <1>9 DEF Items
<1>11. step[p] > 3 => /\ seen[p][Roster] \in Nat /\ seen[p][Roster] <= Asked(Roster)'
                      /\ seen[p][Roster] <= evidence'[File(p, Roster)]
    <2> SUFFICES ASSUME step[p] > 3
                 PROVE  /\ seen[p][Roster] \in Nat /\ seen[p][Roster] <= Asked(Roster)'
                        /\ seen[p][Roster] <= evidence'[File(p, Roster)]
        OBVIOUS
    <2>1. /\ seen[p][Roster] \in Nat /\ seen[p][Roster] <= Asked(Roster)
          /\ seen[p][Roster] <= evidence[File(p, Roster)]
        BY DEF PublishInv
    <2>2. Asked(Roster) \in Int /\ Asked(Roster)' \in Int /\ Asked(Roster) <= Asked(Roster)'
        BY DEF Happens, TypeInv, Items
    <2>3. /\ evidence[File(p, Roster)] \in Int /\ evidence'[File(p, Roster)] \in Int
          /\ evidence[File(p, Roster)] <= evidence'[File(p, Roster)]
        BY <1>3, <1>7 DEF Items
    <2> QED
        BY <2>1, <2>2, <2>3
<1>12. step[p] > 4 => /\ seen[p][Page] \in Nat /\ seen[p][Page] <= evidence'[File(p, Page)]
                      /\ \E k \in 1..Len(moments'[p]) : moments'[p][k].official[Page] = seen[p][Page]
    <2> SUFFICES ASSUME step[p] > 4
                 PROVE  /\ seen[p][Page] \in Nat /\ seen[p][Page] <= evidence'[File(p, Page)]
                        /\ \E k \in 1..Len(moments'[p]) :
                              moments'[p][k].official[Page] = seen[p][Page]
        OBVIOUS
    <2>1. seen[p][Page] \in Nat /\ seen[p][Page] <= evidence[File(p, Page)]
        BY DEF PublishInv
    <2>2. /\ evidence[File(p, Page)] \in Int /\ evidence'[File(p, Page)] \in Int
          /\ evidence[File(p, Page)] <= evidence'[File(p, Page)]
        BY <1>3, <1>7 DEF Items
    <2>3. PICK k \in 1..n : moments[p][k].official[Page] = seen[p][Page]
        BY <1>1 DEF PublishInv
    <2>4. k \in 1..Len(moments'[p]) /\ moments'[p][k].official[Page] = seen[p][Page]
        BY <1>2, <2>3
    <2> QED
        BY <2>1, <2>2, <2>4
<1>13. step[p] > 5 => Then(p)' = Then(p) /\ settled[p] \in 1..Len(moments'[p])
    <2>1. step[p] > 5 => settled[p] \in 1..n
        BY <1>1 DEF PublishInv
    <2> QED
        BY <1>2, <1>3, <2>1 DEF Then
<1>14. step[p] > 5 =>
          /\ settled'[p] \in 1..Len(moments'[p]) /\ seen'[p][Document] \in Nat
          /\ seen'[p][Roster] <= Then(p)'.official[Roster]
          /\ Then(p)'.official[Document] = seen'[p][Document]
          /\ \A i \in Items : seen'[p][i] <= Then(p)'.evidence[File(p, i)']
          /\ Then(p)'.evidence[File(p, Document)'] = seen'[p][Document]
          /\ plan'[p].rev <= Then(p)'.bundles[source'[p]].rev
    BY <1>3, <1>9, <1>10, <1>13 DEF PublishInv
<1>15. /\ step[p] > 9  => Then(p)'.official[Roster] = seen'[p][Roster]
       /\ step[p] > 12 => Then(p)'.bundles[source'[p]].rev = plan'[p].rev
       /\ step[p] > 13 => Then(p)'.evidence[File(p, Roster)'] = seen'[p][Roster]
       /\ step[p] > 14 => Then(p)'.evidence[File(p, Page)'] = seen'[p][Page]
    BY <1>3, <1>9, <1>10, <1>13 DEF PublishInv
<1>16. /\ step[p] <= 3 => seen[p][Roster] = NotSeen
       /\ step[p] <= 4 => seen[p][Page] = NotSeen
       /\ step[p] <= 5 => seen[p][Document] = NotSeen
    BY DEF PublishInv
<1>17. step'[p] = step[p] /\ seen'[p] = seen[p] /\ plan'[p] = plan[p] /\ source'[p] = source[p]
    BY <1>3
<1>18. step[p] > 1 => /\ IsPlan(plan[p]) /\ plan[p].paths = bundles'[source[p]].paths
                      /\ plan[p].rev <= bundles'[source[p]].rev
    BY <1>7
<1> QED
    BY <1>6, <1>8, <1>10, <1>11, <1>12, <1>14, <1>15, <1>16, <1>17, <1>18 DEF PublishInv

LEMMA WorldKeeps ==
    ASSUME NEW new, IInv, TypeInv', Happens(new)
    PROVE  IInv'
<1>1. TypeInv /\ \A p \in Procs : ProcInv(p)
    BY DEF IInv
<1>2. ASSUME NEW p \in Procs PROVE ProcInv(p)'
    <2>1. JobInv(p) /\ CollectInv(p) /\ PublishInv(p) /\ RevalidateInv(p)
          /\ (outcome[p] = "refused" => Excused(p))
        BY <1>1 DEF ProcInv
    <2>2. UNCHANGED <<manifests, job, step, seen, plan, source, outcome>>
        BY DEF Happens
    <2>3. CASE job[p] = "none"
        <3>1. moments'[p] = moments[p]
            BY <2>3 DEF Happens, Noticed
        <3>2. Excused(p)' <=> Excused(p)
            BY <2>2, <3>1 DEF Excused
        <3> QED
            BY <2>1, <2>2, <2>3, <3>2, IdleKeeps
    <2>4. CASE job[p] # "none"
        <3>1. JobInv(p)' /\ outcome'[p] = "none"
            BY <1>1, <2>1, <2>2, <2>4, JobNotices DEF JobInv
        <3>2. CollectInv(p)'
            <4> SUFFICES ASSUME job[p] = "collect" PROVE CollectInv(p)'
                BY <2>2 DEF CollectInv
            <4>1. changes \in Nat /\ changes' = changes + 1 /\ \A i \in Items : seen[p][i] \in Int
                BY <1>1 DEF TypeInv, Happens
            <4>2. DOMAIN evidence' = DOMAIN evidence
                BY DEF Happens
            <4>3. \A i \in Items : seen[p][i] <= changes'
                BY <2>1, <4>1 DEF CollectInv
            <4>4. IsPlan(plan[p]) /\ plan[p].rev <= changes'
                BY <2>1, <4>1 DEF CollectInv, IsPlan
            <4> QED
                BY <2>1, <2>2, <4>2, <4>3, <4>4 DEF CollectInv
        <3>3. PublishInv(p)'
            <4>1. CASE job[p] = "publish"
                BY <1>1, <2>1, <4>1, PublicationNotices
            <4>2. CASE job[p] # "publish"
                BY <2>2, <4>2 DEF PublishInv
            <4> QED
                BY <4>1, <4>2
        <3>4. RevalidateInv(p)'
            BY <2>1, <2>2 DEF RevalidateInv
        <3> QED
            BY <3>1, <3>2, <3>3, <3>4 DEF ProcInv
    <2> QED
        BY <2>3, <2>4
<1> QED
    BY <1>2 DEF IInv

LEMMA ChangeKeeps ==
    ASSUME IInv, NEW i \in Items, Change(i)
    PROVE  IInv'
<1>1. TypeInv
    BY DEF IInv
<1>2. /\ changes \in Nat /\ changes' = changes + 1
      /\ official' = IF i = Roster THEN [official EXCEPT ![i].kept = changes + 1]
                     ELSE [official EXCEPT ![i] = changes + 1]
      /\ Noticed([Now EXCEPT !.official[i] = changes + 1])
      /\ UNCHANGED <<evidence, bundles, manifests, job, step, seen, plan, source, target, outcome, settled>>
    BY <1>1 DEF Change, TypeInv, files, locals
<1>3. /\ DOMAIN official = Items /\ official[Roster] \in [kept : Nat, quote : Nat]
      /\ \A k \in Items : Asked(k) \in 0..changes
    BY <1>1 DEF TypeInv
<1>4. /\ DOMAIN official' = Items /\ official'[Roster] \in [kept : Nat, quote : Nat]
      /\ official'[Roster].kept = IF i = Roster THEN changes + 1 ELSE official[Roster].kept
      /\ \A k \in {Page, Document} : official'[k] = IF k = i THEN changes + 1 ELSE official[k]
    BY <1>2, <1>3 DEF Items, Roster, Page, Document
<1>5. \A k \in Items : Asked(k)' = IF k = i THEN changes + 1 ELSE Asked(k)
    <2>1. Asked(Roster)' = IF i = Roster THEN changes + 1 ELSE Asked(Roster)
        BY <1>4, AskedIs
    <2>2. Asked(Page)' = IF i = Page THEN changes + 1 ELSE Asked(Page)
        BY <1>4, AskedIs
    <2>3. Asked(Document)' = IF i = Document THEN changes + 1 ELSE Asked(Document)
        BY <1>4, AskedIs
    <2> QED
        BY <2>1, <2>2, <2>3 DEF Items
<1>6. \A k \in Items : Asked(k)' \in 0..changes' /\ Asked(k) <= Asked(k)' /\ Asked(k)' \in Int
    BY <1>2, <1>3, <1>5
<1>7. TypeInv'
    <2>1. \A n \in DOMAIN evidence : evidence[n] \in Int /\ evidence[n] <= changes'
        BY <1>1, <1>2 DEF TypeInv
    <2>2. ASSUME NEW n \in DOMAIN bundles
          PROVE  /\ IsPlan(bundles[n]) /\ bundles[n].rev <= changes'
                 /\ \A k \in Items : bundles[n].paths[k] \in DOMAIN evidence
        BY <1>1, <1>2 DEF TypeInv, IsPlan
    <2>3. DOMAIN moments' = Procs
        BY <1>2 DEF Noticed
    <2> QED
        BY <1>1, <1>2, <1>4, <1>6, <2>1, <2>2, <2>3 DEF TypeInv
<1>8. PICK new : new = [Now EXCEPT !.official[i] = changes + 1]
    OBVIOUS
<1>9. /\ \A k \in Items : new.official[k] = Asked(k)'
      /\ new.evidence = evidence /\ new.bundles = bundles
    BY <1>5, <1>8 DEF Now
<1>10. Happens(new)
    <2>1. \A n \in DOMAIN evidence : evidence'[n] \in Int /\ evidence[n] <= evidence'[n]
        BY <1>1, <1>2 DEF TypeInv
    <2>2. \A n \in DOMAIN bundles : /\ IsPlan(bundles'[n]) /\ bundles'[n].paths = bundles[n].paths
                                    /\ bundles[n].rev <= bundles'[n].rev
        BY <1>1, <1>2 DEF TypeInv, IsPlan
    <2> QED
        BY <1>2, <1>6, <1>8, <1>9, <2>1, <2>2 DEF Happens
<1> QED
    BY <1>7, <1>10, WorldKeeps

LEMMA EditEvidenceKeeps ==
    ASSUME IInv, NEW n \in DOMAIN evidence, EditEvidence(n)
    PROVE  IInv'
<1>1. TypeInv
    BY DEF IInv
<1>2. /\ changes \in Nat /\ changes' = changes + 1
      /\ evidence' = [evidence EXCEPT ![n] = changes + 1]
      /\ Noticed([Now EXCEPT !.evidence[n] = changes + 1])
      /\ UNCHANGED <<official, bundles, manifests, job, step, seen, plan, source, target, outcome, settled>>
    BY <1>1 DEF EditEvidence, TypeInv, locals
<1>3. /\ DOMAIN official = Items /\ official[Roster] \in [kept : Nat, quote : Nat]
      /\ \A k \in Items : Asked(k) \in 0..changes
    BY <1>1 DEF TypeInv
<1>4. \A k \in Items : Asked(k)' = Asked(k)
    BY <1>2, AskedIs DEF Items
<1>5. \A k \in Items : Asked(k)' \in 0..changes' /\ Asked(k) <= Asked(k)' /\ Asked(k)' \in Int
    BY <1>2, <1>3, <1>4
<1>6. /\ DOMAIN evidence' = DOMAIN evidence
      /\ \A x \in DOMAIN evidence : /\ evidence'[x] \in Int /\ evidence[x] <= evidence'[x]
                                    /\ evidence'[x] <= changes'
    BY <1>1, <1>2 DEF TypeInv
<1>7. TypeInv'
    <2>1. ASSUME NEW m \in DOMAIN bundles
          PROVE  /\ IsPlan(bundles[m]) /\ bundles[m].rev <= changes'
                 /\ \A k \in Items : bundles[m].paths[k] \in DOMAIN evidence'
        BY <1>1, <1>2, <1>6 DEF TypeInv, IsPlan
    <2>2. DOMAIN moments' = Procs
        BY <1>2 DEF Noticed
    <2> QED
        BY <1>1, <1>2, <1>3, <1>5, <1>6, <2>1, <2>2 DEF TypeInv
<1>8. PICK new : new = [Now EXCEPT !.evidence[n] = changes + 1]
    OBVIOUS
<1>9. /\ \A k \in Items : new.official[k] = Asked(k)'
      /\ new.evidence = evidence' /\ new.bundles = bundles
    BY <1>2, <1>4, <1>8 DEF Now
<1>10. Happens(new)
    <2>1. \A m \in DOMAIN bundles : /\ IsPlan(bundles'[m]) /\ bundles'[m].paths = bundles[m].paths
                                    /\ bundles[m].rev <= bundles'[m].rev
        BY <1>1, <1>2 DEF TypeInv, IsPlan
    <2> QED
        BY <1>2, <1>5, <1>6, <1>8, <1>9, <2>1 DEF Happens
<1> QED
    BY <1>7, <1>10, WorldKeeps

LEMMA EditBundleKeeps ==
    ASSUME IInv, NEW n \in DOMAIN bundles, EditBundle(n)
    PROVE  IInv'
<1>1. TypeInv
    BY DEF IInv
<1>2. /\ changes \in Nat /\ changes' = changes + 1
      /\ bundles' = [bundles EXCEPT ![n].rev = changes + 1]
      /\ Noticed([Now EXCEPT !.bundles[n].rev = changes + 1])
      /\ UNCHANGED <<official, evidence, manifests, job, step, seen, plan, source, target, outcome, settled>>
    BY <1>1 DEF EditBundle, TypeInv, locals
<1>3. /\ DOMAIN official = Items /\ official[Roster] \in [kept : Nat, quote : Nat]
      /\ \A k \in Items : Asked(k) \in 0..changes
    BY <1>1 DEF TypeInv
<1>4. \A k \in Items : Asked(k)' = Asked(k)
    BY <1>2, AskedIs DEF Items
<1>5. \A k \in Items : Asked(k)' \in 0..changes' /\ Asked(k) <= Asked(k)' /\ Asked(k)' \in Int
    BY <1>2, <1>3, <1>4
<1>6. \A x \in DOMAIN evidence : evidence[x] \in Int /\ evidence[x] <= changes'
    BY <1>1, <1>2 DEF TypeInv
<1>7. IsPlan(bundles[n]) /\ bundles[n].rev <= changes
    BY <1>1 DEF TypeInv
<1>8. /\ DOMAIN bundles' = DOMAIN bundles
      /\ bundles'[n] = [paths |-> bundles[n].paths, rev |-> changes + 1]
      /\ \A m \in DOMAIN bundles \ {n} : bundles'[m] = bundles[m]
    BY <1>2, <1>7 DEF IsPlan
<1>9. ASSUME NEW m \in DOMAIN bundles
      PROVE  /\ IsPlan(bundles'[m]) /\ bundles'[m].paths = bundles[m].paths
             /\ bundles[m].rev <= bundles'[m].rev /\ bundles'[m].rev <= changes'
    <2>1. IsPlan(bundles[m]) /\ bundles[m].rev <= changes
        BY <1>1 DEF TypeInv
    <2>2. CASE m = n
        BY <1>2, <1>8, <2>1, <2>2 DEF IsPlan
    <2>3. CASE m # n
        BY <1>2, <1>8, <2>1, <2>3 DEF IsPlan
    <2> QED
        BY <2>2, <2>3
<1>10. TypeInv'
    <2>1. ASSUME NEW m \in DOMAIN bundles'
          PROVE  /\ IsPlan(bundles'[m]) /\ bundles'[m].rev <= changes'
                 /\ \A k \in Items : bundles'[m].paths[k] \in DOMAIN evidence
        BY <1>1, <1>8, <1>9 DEF TypeInv
    <2>2. DOMAIN moments' = Procs
        BY <1>2 DEF Noticed
    <2> QED
        BY <1>1, <1>2, <1>3, <1>5, <1>6, <2>1, <2>2 DEF TypeInv
<1>11. PICK new : new = [Now EXCEPT !.bundles[n].rev = changes + 1]
    OBVIOUS
<1>12. /\ \A k \in Items : new.official[k] = Asked(k)'
       /\ new.evidence = evidence /\ new.bundles = bundles'
    BY <1>2, <1>4, <1>11 DEF Now
<1>13. Happens(new)
    <2>1. \A x \in DOMAIN evidence : evidence'[x] \in Int /\ evidence[x] <= evidence'[x]
        BY <1>2, <1>6
    <2> QED
        BY <1>2, <1>5, <1>8, <1>9, <1>11, <1>12, <2>1 DEF Happens
<1> QED
    BY <1>10, <1>13, WorldKeeps

\* A price does not concern anybody: it is not part of what is asked for.
LEMMA QuoteKeeps ==
    ASSUME IInv, Quote
    PROVE  IInv'
<1>1. TypeInv /\ \A p \in Procs : ProcInv(p)
    BY DEF IInv
<1>2. /\ changes \in Nat /\ changes' = changes + 1
      /\ official' = [official EXCEPT ![Roster].quote = changes + 1]
      /\ UNCHANGED <<evidence, bundles, manifests, job, step, seen, plan, source, target, outcome,
                     moments, settled>>
    BY <1>1 DEF Quote, TypeInv, files, locals
<1>3. /\ DOMAIN official' = Items /\ official'[Roster] \in [kept : Nat, quote : Nat]
      /\ official'[Roster].kept = official[Roster].kept
      /\ official'[Page] = official[Page] /\ official'[Document] = official[Document]
    BY <1>1, <1>2 DEF TypeInv, Items, Roster, Page, Document
<1>4. \A i \in Items : Asked(i)' = Asked(i)
    BY <1>3, AskedIs DEF Items
<1>5. Grows
    BY <1>2, <1>4 DEF Grows, Adds
<1>6. TypeInv'
    <2>1. \A n \in DOMAIN evidence : evidence[n] \in Int /\ evidence[n] <= changes'
        BY <1>1, <1>2 DEF TypeInv
    <2>2. ASSUME NEW n \in DOMAIN bundles
          PROVE  /\ IsPlan(bundles[n]) /\ bundles[n].rev <= changes'
                 /\ \A k \in Items : bundles[n].paths[k] \in DOMAIN evidence
        BY <1>1, <1>2 DEF TypeInv, IsPlan
    <2>3. \A i \in Items : Asked(i)' \in 0..changes'
        BY <1>1, <1>2, <1>4 DEF TypeInv
    <2> QED
        BY <1>1, <1>2, <1>3, <2>1, <2>2, <2>3 DEF TypeInv
<1>7. ASSUME NEW p \in Procs PROVE ProcInv(p)'
    <2>1. Apart(p) /\ changes' \in Nat
        BY <1>2 DEF Apart
    <2> QED
        BY <1>1, <1>5, <2>1, OthersKeep
<1> QED
    BY <1>6, <1>7 DEF IInv

LEMMA Invariant == Spec => []IInv
<1>1. IInv /\ [Next]_vars => IInv'
    <2> SUFFICES ASSUME IInv, [Next]_vars PROVE IInv'
        OBVIOUS
    <2>1. ASSUME NEW p \in Procs, JobStep(p) PROVE IInv'
        BY <2>1, JobKeeps
    <2>2. CASE \E i \in Items : Change(i)
        BY <2>2, ChangeKeeps
    <2>3. CASE Quote
        BY <2>3, QuoteKeeps
    <2>4. CASE \E n \in DOMAIN evidence : EditEvidence(n)
        BY <2>4, EditEvidenceKeeps
    <2>5. CASE \E n \in DOMAIN bundles : EditBundle(n)
        BY <2>5, EditBundleKeeps
    <2>6. CASE UNCHANGED vars
        <3>1. UNCHANGED <<official, evidence, bundles, manifests, changes, job, step, seen, plan,
                          source, target, outcome, moments, settled>>
            BY <2>6 DEF vars, files, locals
        <3>2. TypeInv
            BY DEF IInv
        <3>3. JobsTyped'
            BY <3>1, <3>2 DEF TypeInv, JobsTyped
        <3>4. TypeInv' /\ Grows
            BY <3>1, <3>2, <3>3, FilesStay
        <3>5. ASSUME NEW p \in Procs PROVE ProcInv(p)'
            <4>1. Apart(p) /\ changes' \in Nat /\ ProcInv(p)
                BY <3>1, <3>4 DEF Apart, TypeInv, IInv
            <4> QED
                BY <3>2, <3>4, <4>1, OthersKeep
        <3> QED
            BY <3>4, <3>5 DEF IInv
    <2> QED
        BY <2>1, <2>2, <2>3, <2>4, <2>5, <2>6 DEF Next, JobStep
<1> QED
    BY Initially, <1>1, PTL DEF Spec

-----------------------------------------------------------------------------
\* Nobody is refused without a reason.  A publication or a revalidation that is
\* turned down was given evidence that did not fit, or something that it reads has
\* changed since it began: that others collect, publish or revalidate meanwhile, or
\* that a price moves, is not enough.
THEOREM NobodyIsTurnedDown == Spec => []UndisturbedSucceeds
<1>1. IInv => UndisturbedSucceeds
    BY DEF IInv, ProcInv, Excused, UndisturbedSucceeds
<1> QED
    BY Invariant, <1>1, PTL

\* What a publication links is what the files, the sources and the bundle all said
\* at one moment, after it had read every item.
LEMMA LinkedAtOnce ==
    ASSUME IInv, NEW p \in Procs, Link(p), NEW n \in DOMAIN manifests' \ DOMAIN manifests
    PROVE  /\ job[p] = "publish" /\ At(p, "link")
           /\ LET m == manifests'[n] IN
              /\ \E k \in settled[p]..Len(moments[p]) :
                   LET now == moments[p][k] IN
                   /\ \A i \in Items : <<m.plan.paths[i], m.seen[i]>> \in Pairs(now.evidence)
                   /\ \A i \in Items \ {Page} : now.official[i] = m.seen[i]
                   /\ <<source[p], m.plan>> \in Pairs(now.bundles)
              /\ \E k \in 1..Len(moments[p]) : moments[p][k].official[Page] = m.seen[Page]
<1>1. /\ TypeInv /\ ProcInv(p) /\ JobInv(p) /\ PublishInv(p) /\ step[p] \in Nat
      /\ At(p, "link") /\ job[p] # "none"
    BY DEF IInv, ProcInv, TypeInv, Link, At
<1>2. Here(p).item = "manifest" /\ manifests' = Linked(Shelf(p), target[p], Content(p))
    <2>1. manifests' # manifests
        OBVIOUS
    <2> QED
        BY <2>1 DEF Link, Fail
<1>3. job[p] = "publish" /\ step[p] = 16
    BY <1>1, <1>2, ThreeKinds, PlacesOfCollect, PlacesOfPublish, PlacesOfRevalidate
       DEF Roster, Page, Document
<1>4. Shelf(p) = manifests /\ Content(p) = [plan |-> plan[p], seen |-> seen[p]]
    BY <1>2 DEF Shelf, Content, Items, Roster, Page, Document
<1>5. manifests'[n] = [plan |-> plan[p], seen |-> seen[p]]
    BY <1>2, <1>4, LinkedIs
<1>6. PICK k : k = settled[p]
    OBVIOUS
<1>7. PICK now : now = moments[p][k]
    OBVIOUS
<1>8. Then(p) = now
    BY <1>6, <1>7 DEF Then
<1>9. /\ step[p] > 1 /\ step[p] > 4 /\ step[p] > 5 /\ step[p] > 9 /\ step[p] > 12
      /\ step[p] > 13 /\ step[p] > 14
    BY <1>3
<1>10. /\ k \in 1..Len(moments[p])
       /\ now.official[Document] = seen[p][Document] /\ now.official[Roster] = seen[p][Roster]
       /\ now.evidence[File(p, Document)] = seen[p][Document]
       /\ now.evidence[File(p, Roster)] = seen[p][Roster]
       /\ now.evidence[File(p, Page)] = seen[p][Page]
       /\ now.bundles[source[p]].rev = plan[p].rev
    BY <1>1, <1>3, <1>6, <1>8, <1>9 DEF PublishInv
<1>11. /\ IsPlan(plan[p]) /\ plan[p].paths = bundles[source[p]].paths
       /\ source[p] \in DOMAIN now.bundles
       /\ \A i \in Items : now.bundles[source[p]].paths[i] \in DOMAIN now.evidence
       /\ \E j \in 1..Len(moments[p]) : moments[p][j].official[Page] = seen[p][Page]
    BY <1>1, <1>3, <1>7, <1>9, <1>10 DEF PublishInv
<1>12. IsPlan(now.bundles[source[p]]) /\ now.bundles[source[p]].paths = plan[p].paths
    BY <1>1, <1>7, <1>10, <1>11 DEF JobInv, Past
<1>13. now.bundles[source[p]] = plan[p]
    BY <1>10, <1>11, <1>12 DEF IsPlan
<1>14. <<source[p], plan[p]>> \in Pairs(now.bundles)
    BY <1>11, <1>13 DEF Pairs
<1>15. ASSUME NEW i \in Items PROVE <<plan[p].paths[i], seen[p][i]>> \in Pairs(now.evidence)
    <2>1. plan[p].paths[i] \in DOMAIN now.evidence
        BY <1>11, <1>12
    <2>2. now.evidence[plan[p].paths[i]] = seen[p][i]
        BY <1>10 DEF File, Items
    <2> QED
        BY <2>1, <2>2 DEF Pairs
<1>16. \A i \in Items \ {Page} : now.official[i] = seen[p][i]
    BY <1>10 DEF Items
<1>17. k \in settled[p]..Len(moments[p])
    BY <1>6, <1>10
<1>18. \E j \in settled[p]..Len(moments[p]) :
           /\ \A i \in Items : <<plan[p].paths[i], seen[p][i]>> \in Pairs(moments[p][j].evidence)
           /\ \A i \in Items \ {Page} : moments[p][j].official[i] = seen[p][i]
           /\ <<source[p], plan[p]>> \in Pairs(moments[p][j].bundles)
    BY <1>7, <1>14, <1>15, <1>16, <1>17
<1>19. PICK m : m = manifests'[n]
    OBVIOUS
<1>20. m.plan = plan[p] /\ m.seen = seen[p]
    BY <1>5, <1>19
<1>21. \E j \in settled[p]..Len(moments[p]) :
           /\ \A i \in Items : <<m.plan.paths[i], m.seen[i]>> \in Pairs(moments[p][j].evidence)
           /\ \A i \in Items \ {Page} : moments[p][j].official[i] = m.seen[i]
           /\ <<source[p], m.plan>> \in Pairs(moments[p][j].bundles)
    BY <1>18, <1>20
<1>22. \E j \in 1..Len(moments[p]) : moments[p][j].official[Page] = m.seen[Page]
    BY <1>11, <1>20
<1> QED
    BY <1>1, <1>3, <1>19, <1>21, <1>22

\* A manifest says what held together: between the last first reading and the link
\* there was a moment at which all its files, the bundle and the sources of roster
\* and documents were as it says, however many wrote at the same time.
THEOREM ManifestsHoldTogether == Spec => PublishedTogether
<1> DEFINE Together ==
        \A n \in DOMAIN manifests' \ DOMAIN manifests :
          LET m == manifests'[n] IN
          \E p \in {q \in Procs : job[q] = "publish" /\ At(q, "link")} :
             /\ \E k \in settled[p]..Len(moments[p]) :
                   LET now == moments[p][k] IN
                   /\ \A i \in Items : <<m.plan.paths[i], m.seen[i]>> \in Pairs(now.evidence)
                   /\ \A i \in Items \ {Page} : now.official[i] = m.seen[i]
                   /\ <<source[p], m.plan>> \in Pairs(now.bundles)
             /\ \E k \in 1..Len(moments[p]) : moments[p][k].official[Page] = m.seen[Page]
<1>1. IInv /\ [Next]_vars => Together
    <2> SUFFICES ASSUME IInv, [Next]_vars, NEW n \in DOMAIN manifests' \ DOMAIN manifests
                 PROVE  \E p \in Procs : Link(p)
        BY LinkedAtOnce
    <2> QED
        BY OnlyLinksChange
<1> QED
    BY Invariant, <1>1, PTL DEF Spec, PublishedTogether

=============================================================================
