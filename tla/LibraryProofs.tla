---------------------------- MODULE LibraryProofs ----------------------------
(***************************************************************************)
(* Proofs about Library, for any number of uploads, chats, courses and     *)
(* problems: files and rows agree, deletion takes along what it should and *)
(* no more, and practice problems agree with the sessions they are of.     *)
(***************************************************************************)
EXTENDS Library, FiniteSetTheorems, TLAPS

USE LibraryAssumption
    DEF diskVars, chatVars, courseVars, turnVars, setVars, history, faultVars

-----------------------------------------------------------------------------
(* Which steps change what *)

LEMMA DiskStays ==
  [Next]_vars =>
    \/ UNCHANGED <<diskVars, drawnIn, faultVars>>
    \/ \E u \in Uploads : UploadImage(u) \/ UploadDocument(u) \/ Extracted(u) \/ Rejected(u) \/ Draw(u)
    \/ \E c \in Chats : DeleteChat(c)
    \/ \E k \in Courses : DeleteCourse(k)
    \/ \E k \in Courses, u \in Uploads : RemoveMaterial(k, u)
    \/ Restart
  BY DEF Next, vars, Send, BeginSearch, EndSearch, StartTurn, AddProblem, Reply, NoReply,
         CreateCourse, AddMaterial, AnswerProblem, MarkProblem, RevealProblem

LEMMA ChatsStay ==
  [Next]_vars =>
    \/ UNCHANGED <<chatVars, shared>>
    \/ \E photo \in Photos, ds \in Documents, c \in Chats, where \in {"plain"} \cup Courses :
         Send(c, where, photo, ds)
    \/ \E c \in Chats : EndSearch(c)
    \/ Reply
    \/ \E c \in Chats : DeleteChat(c)
    \/ \E k \in Courses : DeleteCourse(k)
  BY DEF Next, vars, UploadImage, UploadDocument, Extracted, Rejected, Draw, BeginSearch, StartTurn,
         AddProblem, NoReply, CreateCourse, AddMaterial, RemoveMaterial, AnswerProblem, MarkProblem,
         RevealProblem, Restart

LEMMA CoursesStay ==
  [Next]_vars =>
    \/ UNCHANGED courseVars
    \/ \E k \in Courses : CreateCourse(k) \/ DeleteCourse(k)
    \/ \E k \in Courses, u \in Uploads : AddMaterial(k, u) \/ RemoveMaterial(k, u)
  BY DEF Next, vars, UploadImage, UploadDocument, Extracted, Rejected, Draw, Send, BeginSearch,
         EndSearch, StartTurn, AddProblem, Reply, NoReply, DeleteChat, AnswerProblem, MarkProblem,
         RevealProblem, Restart

LEMMA TurnStays ==
  [Next]_vars =>
    \/ UNCHANGED turnVars
    \/ \E photo \in Photos, ds \in Documents, c \in Chats \cup {None} : BeginSearch(c, photo, ds)
    \/ \E c \in Chats : EndSearch(c) \/ StartTurn(c) \/ DeleteChat(c)
    \/ \E u \in Uploads : Draw(u)
    \/ \E p \in Problems, kind \in {"graded", "short"} : AddProblem(p, kind)
    \/ Reply \/ NoReply \/ Restart
    \/ \E k \in Courses : DeleteCourse(k)
  BY DEF Next, vars, UploadImage, UploadDocument, Extracted, Rejected, Send, CreateCourse,
         AddMaterial, RemoveMaterial, AnswerProblem, MarkProblem, RevealProblem

LEMMA SetsStay ==
  [Next]_vars =>
    \/ UNCHANGED setVars
    \/ \E p \in Problems, kind \in {"graded", "short"} : AddProblem(p, kind)
    \/ \E c \in Chats : DeleteChat(c)
    \/ \E k \in Courses : DeleteCourse(k)
    \/ \E p \in Problems : AnswerProblem(p) \/ MarkProblem(p) \/ RevealProblem(p)
  BY DEF Next, vars, UploadImage, UploadDocument, Extracted, Rejected, Draw, Send, BeginSearch,
         EndSearch, StartTurn, Reply, NoReply, CreateCourse, AddMaterial, RemoveMaterial, Restart

-----------------------------------------------------------------------------
(* Types *)

DiskTypes ==
  /\ rows \in [Uploads -> Kinds \cup {"new", "gone"}]
  /\ disk \subseteq Uploads \X {"file", "text", "incoming"}
  /\ reading \subseteq Uploads
  /\ drawnIn \in [Uploads -> Chats \cup {None}]
  /\ cuts \in Nat /\ restarts \in Nat

ChatTypes ==
  /\ chats \in [Chats -> {"new", "plain", "gone"} \cup Courses]
  /\ images \in [Chats -> SUBSET Uploads] /\ docs \in [Chats -> SUBSET Uploads]
  /\ figures \in [Chats -> SUBSET Uploads] /\ cards \in [Chats -> SUBSET Problems]
  /\ shared \subseteq Uploads

\* Cardinality says something of finite sets only.
CourseTypes ==
  /\ courses \in [Courses -> {"new", "live", "gone"}]
  /\ materials \subseteq Courses \X Uploads
  /\ \A k \in Courses : /\ IsFiniteSet(MaterialsOf(k))
                        /\ Cardinality(MaterialsOf(k)) <= MaxMaterials

TurnTypes ==
  /\ search = None \/ search \in [chat : Chats \cup {None}, photo : SUBSET Uploads,
                                   docs : SUBSET Uploads]
  /\ turn = None \/ turn \in [chat : Chats \cup {None}, home : Chats, studies : BOOLEAN,
                               drawn : SUBSET Uploads, added : SUBSET Problems]
  /\ turn # None => IsFiniteSet(turn.added)

SetTypes ==
  /\ problems \in [Problems -> [chat : Chats \cup {None, "gone"}, n : Nat,
                                kind : {None, "graded", "short"}]]
  /\ attempts \in [Problems -> Seq(DoneWith \cup {"wrong"})] /\ seen \subseteq Problems

Types == DiskTypes /\ ChatTypes /\ CourseTypes /\ TurnTypes /\ SetTypes

LEMMA TypesCover == Types => TypeOK
  BY DEF Types, DiskTypes, ChatTypes, CourseTypes, TurnTypes, SetTypes, TypeOK

LEMMA InitTypes == Init => Types
<1> SUFFICES ASSUME Init PROVE Types
  OBVIOUS
<1>1. DiskTypes /\ ChatTypes /\ TurnTypes
  BY FS_EmptySet DEF Init, DiskTypes, ChatTypes, TurnTypes
<1>2. CourseTypes
  <2>1. ASSUME NEW k \in Courses
        PROVE  /\ IsFiniteSet(MaterialsOf(k))
               /\ Cardinality(MaterialsOf(k)) <= MaxMaterials
    <3>1. MaterialsOf(k) = {}
      BY DEF Init, MaterialsOf
    <3> QED
      BY <3>1, FS_EmptySet
  <2>2. courses \in [Courses -> {"new", "live", "gone"}] /\ materials = {}
    BY DEF Init
  <2> QED
    BY <2>1, <2>2 DEF CourseTypes
<1>3. SetTypes
  BY DEF Init, SetTypes, NoProblem
<1> QED
  BY <1>1, <1>2, <1>3 DEF Types

\* What a deletion removes are uploads.
LEMMA OwnedAreUploads ==
  ASSUME ChatTypes, NEW c \in Chats
  PROVE  Owned(c) \subseteq Stored /\ Stored \subseteq Uploads
  BY DEF Owned, Stored

LEMMA DiskTyped == Types /\ [Next]_vars => DiskTypes'
<1> SUFFICES ASSUME Types, [Next]_vars PROVE DiskTypes'
  OBVIOUS
<1> USE DEF DiskTypes, Kinds, Cut, Trouble
<1>0. DiskTypes
  BY DEF Types
<1>1. CASE UNCHANGED <<diskVars, drawnIn, faultVars>>
  BY <1>0, <1>1
<1>2. ASSUME NEW u \in Uploads, UploadImage(u) PROVE DiskTypes'
  BY <1>0, <1>2 DEF UploadImage, Saved, Inserted
<1>3. ASSUME NEW u \in Uploads, UploadDocument(u) PROVE DiskTypes'
  BY <1>0, <1>3 DEF UploadDocument
<1>4. ASSUME NEW u \in Uploads, Extracted(u) PROVE DiskTypes'
  BY <1>0, <1>4 DEF Extracted, SavedDocument, Inserted, FilesOf
<1>5. ASSUME NEW u \in Uploads, Rejected(u) PROVE DiskTypes'
  BY <1>0, <1>5 DEF Rejected
<1>6. ASSUME NEW u \in Uploads, Draw(u) PROVE DiskTypes'
  <2>1. turn.home \in Chats
    BY <1>6 DEF Types, TurnTypes, Draw
  <2> QED
    BY <1>0, <1>6, <2>1 DEF Draw, Saved, Inserted
<1>7. ASSUME NEW us, NEW removed, Dropped(us, removed), UNCHANGED <<reading, drawnIn, restarts>>,
             UNCHANGED cuts \/ Cut
      PROVE  DiskTypes'
  BY <1>0, <1>7 DEF Dropped
<1>8. ASSUME NEW c \in Chats, DeleteChat(c) PROVE DiskTypes'
  BY <1>0, <1>7, <1>8 DEF DeleteChat
<1>9. ASSUME NEW k \in Courses, DeleteCourse(k) PROVE DiskTypes'
  BY <1>7, <1>9 DEF DeleteCourse
<1>10. ASSUME NEW k \in Courses, NEW u \in Uploads, RemoveMaterial(k, u) PROVE DiskTypes'
  BY <1>7, <1>10 DEF RemoveMaterial
<1>11. CASE Restart
  BY <1>0, <1>11 DEF Restart
<1> QED
  BY <1>1, <1>2, <1>3, <1>4, <1>5, <1>6, <1>8, <1>9, <1>10, <1>11, DiskStays

LEMMA ChatsTyped == Types /\ [Next]_vars => ChatTypes'
<1> SUFFICES ASSUME Types, [Next]_vars PROVE ChatTypes'
  OBVIOUS
<1> USE DEF ChatTypes
<1>0. ChatTypes
  BY DEF Types
<1>1. CASE UNCHANGED <<chatVars, shared>>
  BY <1>0, <1>1
<1>2. ASSUME NEW photo \in Photos, NEW ds \in Documents, NEW c \in Chats,
             NEW where \in {"plain"} \cup Courses, Send(c, where, photo, ds)
      PROVE  ChatTypes'
  <2>1. photo \subseteq Uploads /\ ds \subseteq Uploads
    BY DEF Photos, Documents, Stored
  <2> QED
    BY <1>0, <1>2, <2>1 DEF Send, Message
<1>3. ASSUME NEW c \in Chats, EndSearch(c) PROVE ChatTypes'
  <2>1. search.photo \subseteq Uploads /\ search.docs \subseteq Uploads
    BY <1>3 DEF Types, TurnTypes, EndSearch
  <2> QED
    BY <1>0, <1>3, <2>1 DEF EndSearch, Message
<1>4. CASE Reply
  <2>1. turn.drawn \subseteq Uploads /\ turn.added \subseteq Problems
    BY <1>4 DEF Types, TurnTypes, Reply
  <2> QED
    BY <1>0, <1>4, <2>1 DEF Reply
<1>5. ASSUME NEW cs, Forget(cs), UNCHANGED shared PROVE ChatTypes'
  BY <1>0, <1>5 DEF Forget
<1>6. ASSUME NEW c \in Chats, DeleteChat(c) PROVE ChatTypes'
  BY <1>0, <1>5, <1>6 DEF DeleteChat
<1>7. ASSUME NEW k \in Courses, DeleteCourse(k) PROVE ChatTypes'
  BY <1>5, <1>7 DEF DeleteCourse
<1> QED
  BY <1>1, <1>2, <1>3, <1>4, <1>6, <1>7, ChatsStay

LEMMA CoursesTyped == Types /\ [Next]_vars => CourseTypes'
<1> SUFFICES ASSUME Types, [Next]_vars PROVE CourseTypes'
  OBVIOUS
<1>0. CourseTypes
  BY DEF Types
<1>1. CASE UNCHANGED courseVars
  BY <1>0, <1>1 DEF CourseTypes, MaterialsOf
<1>2. ASSUME NEW k \in Courses, CreateCourse(k) PROVE CourseTypes'
  BY <1>0, <1>2 DEF CreateCourse, CourseTypes, MaterialsOf
<1>3. ASSUME NEW k \in Courses, NEW u \in Uploads, AddMaterial(k, u) PROVE CourseTypes'
  <2>1. MaterialsOf(k)' = MaterialsOf(k) \cup {u}
    BY <1>3 DEF AddMaterial, MaterialsOf
  <2>2. \A x \in Courses \ {k} : MaterialsOf(x)' = MaterialsOf(x)
    BY <1>3 DEF AddMaterial, MaterialsOf
  <2>3. /\ IsFiniteSet(MaterialsOf(k))
        /\ Cardinality(MaterialsOf(k)) \in Nat /\ Cardinality(MaterialsOf(k)) < MaxMaterials
    <3>1. IsFiniteSet(MaterialsOf(k))
      BY <1>0 DEF CourseTypes
    <3>2. Cardinality(MaterialsOf(k)) < MaxMaterials
      BY <1>3 DEF AddMaterial, RoomFor
    <3> QED
      BY <3>1, <3>2, FS_CardinalityType
  <2>4. IsFiniteSet(MaterialsOf(k)') /\ Cardinality(MaterialsOf(k)') <= MaxMaterials
    <3>1. /\ IsFiniteSet(MaterialsOf(k) \cup {u})
          /\ Cardinality(MaterialsOf(k) \cup {u})
               = IF u \in MaterialsOf(k) THEN Cardinality(MaterialsOf(k))
                 ELSE Cardinality(MaterialsOf(k)) + 1
      BY <2>3, FS_AddElement
    <3> DEFINE n == Cardinality(MaterialsOf(k))
               m == Cardinality(MaterialsOf(k) \cup {u})
    <3>2. n \in Nat /\ n < MaxMaterials /\ (m = n \/ m = n + 1)
      BY <2>3, <3>1
    <3> HIDE DEF n, m
    <3>3. m <= MaxMaterials
      BY <3>2
    <3> QED
      BY <2>1, <3>1, <3>3 DEF m
  <2>5. \A x \in Courses : /\ IsFiniteSet(MaterialsOf(x)')
                             /\ Cardinality(MaterialsOf(x)') <= MaxMaterials
    BY <1>0, <2>2, <2>4 DEF CourseTypes
  <2>6. materials' \subseteq Courses \X Uploads /\ courses' = courses
    BY <1>0, <1>3 DEF AddMaterial, CourseTypes
  <2> QED
    BY <1>0, <2>5, <2>6 DEF CourseTypes
<1>4. ASSUME materials' \subseteq materials, courses' \in [Courses -> {"new", "live", "gone"}]
      PROVE  CourseTypes'
  <2>1. ASSUME NEW k \in Courses
        PROVE  IsFiniteSet(MaterialsOf(k)') /\ Cardinality(MaterialsOf(k)') <= MaxMaterials
    <3>1. MaterialsOf(k)' \in SUBSET MaterialsOf(k)
      BY <1>4 DEF MaterialsOf
    <3>2. IsFiniteSet(MaterialsOf(k)) /\ Cardinality(MaterialsOf(k)) \in Nat
      BY <1>0, FS_CardinalityType DEF CourseTypes
    <3>3. /\ IsFiniteSet(MaterialsOf(k)') /\ Cardinality(MaterialsOf(k)') \in Nat
          /\ Cardinality(MaterialsOf(k)') <= Cardinality(MaterialsOf(k))
      BY <3>1, <3>2, FS_Subset, FS_CardinalityType
    <3> QED
      BY <1>0, <3>2, <3>3 DEF CourseTypes
  <2> QED
    BY <1>0, <1>4, <2>1 DEF CourseTypes
<1>5. ASSUME NEW k \in Courses, NEW u \in Uploads, RemoveMaterial(k, u) PROVE CourseTypes'
  BY <1>0, <1>4, <1>5 DEF RemoveMaterial, CourseTypes
<1>6. ASSUME NEW k \in Courses, DeleteCourse(k) PROVE CourseTypes'
  <2>1. materials' \subseteq materials /\ courses' = [courses EXCEPT ![k] = "gone"]
    BY <1>6 DEF DeleteCourse
  <2> QED
    BY <1>0, <1>4, <2>1 DEF CourseTypes
<1> QED
  BY <1>1, <1>2, <1>3, <1>5, <1>6, CoursesStay

LEMMA TurnTyped == Types /\ [Next]_vars => TurnTypes'
<1> SUFFICES ASSUME Types, [Next]_vars PROVE TurnTypes'
  OBVIOUS
<1> USE DEF TurnTypes
<1>0. TurnTypes
  BY DEF Types
<1>1. CASE UNCHANGED turnVars
  BY <1>0, <1>1
<1>2. ASSUME NEW photo \in Photos, NEW ds \in Documents, NEW c \in Chats \cup {None},
             BeginSearch(c, photo, ds)
      PROVE  TurnTypes'
  <2>1. photo \subseteq Uploads /\ ds \subseteq Uploads
    BY DEF Photos, Documents, Stored
  <2> QED
    BY <1>0, <1>2, <2>1 DEF BeginSearch
<1>3. ASSUME NEW c \in Chats, EndSearch(c) PROVE TurnTypes'
  BY <1>0, <1>3 DEF EndSearch
<1>4. ASSUME NEW c \in Chats, StartTurn(c) PROVE TurnTypes'
  <2>1. (chats[c] # "plain") \in BOOLEAN
    OBVIOUS
  <2> QED
    BY <1>0, <1>4, <2>1, FS_EmptySet DEF StartTurn
<1>5. ASSUME NEW u \in Uploads, Draw(u) PROVE TurnTypes'
  <2>1. /\ turn \in [chat : Chats \cup {None}, home : Chats, studies : BOOLEAN,
                      drawn : SUBSET Uploads, added : SUBSET Problems]
        /\ IsFiniteSet(turn.added)
    BY <1>0, <1>5 DEF Draw
  <2>2. turn' = [turn EXCEPT !.drawn = turn.drawn \cup {u}] \/ turn' = turn
    BY <1>5 DEF Draw
  <2> QED
    BY <1>0, <1>5, <2>1, <2>2 DEF Draw
<1>6. ASSUME NEW p \in Problems, NEW kind, AddProblem(p, kind) PROVE TurnTypes'
  <2>1. /\ turn \in [chat : Chats \cup {None}, home : Chats, studies : BOOLEAN,
                      drawn : SUBSET Uploads, added : SUBSET Problems]
        /\ IsFiniteSet(turn.added \cup {p})
    BY <1>0, <1>6, FS_AddElement DEF AddProblem
  <2>2. turn' = [turn EXCEPT !.added = turn.added \cup {p}] /\ search' = search
    BY <1>6 DEF AddProblem
  <2> QED
    BY <1>0, <2>1, <2>2
<1>7. ASSUME Reply \/ NoReply \/ Restart PROVE TurnTypes'
  BY <1>0, <1>7 DEF Reply, NoReply, Restart
<1>8. ASSUME NEW cs, turn' = Loose(cs), UNCHANGED search PROVE TurnTypes'
  BY <1>0, <1>8 DEF Loose
<1>9. ASSUME NEW c \in Chats, DeleteChat(c) PROVE TurnTypes'
  BY <1>8, <1>9 DEF DeleteChat
<1>10. ASSUME NEW k \in Courses, DeleteCourse(k) PROVE TurnTypes'
  BY <1>8, <1>10 DEF DeleteCourse
<1> QED
  BY <1>1, <1>2, <1>3, <1>4, <1>5, <1>6, <1>7, <1>9, <1>10, TurnStays

\* An attempt is added at the end.
LEMMA RecordAdds ==
  ASSUME SetTypes, NEW p \in Problems, NEW o \in DoneWith \cup {"wrong"}, Record(p, o)
  PROVE  /\ attempts' = [attempts EXCEPT ![p] = Append(attempts[p], o)]
         /\ Append(attempts[p], o) \in Seq(DoneWith \cup {"wrong"})
         /\ Len(Append(attempts[p], o)) = Len(attempts[p]) + 1 /\ Len(attempts[p]) \in Nat
         /\ \A i \in 1..Len(attempts[p]) : Append(attempts[p], o)[i] = attempts[p][i]
         /\ seen \subseteq seen' /\ seen' \subseteq seen \cup {p}
         /\ p \in seen' => p \in seen \/ Shown(attempts'[p])
  BY DEF SetTypes, Record

LEMMA SetsTyped == Types /\ [Next]_vars => SetTypes'
<1> SUFFICES ASSUME Types, [Next]_vars PROVE SetTypes'
  OBVIOUS
<1>0. SetTypes
  BY DEF Types
<1>1. CASE UNCHANGED setVars
  BY <1>0, <1>1 DEF SetTypes
<1>2. ASSUME NEW p \in Problems, NEW kind \in {"graded", "short"}, AddProblem(p, kind)
      PROVE  SetTypes'
  <2>1. turn.chat \in Chats /\ turn.added \subseteq Problems
    BY <1>2 DEF Types, TurnTypes, AddProblem
  <2>2. Cardinality(turn.added) \in Nat
    BY <1>2, FS_CardinalityType DEF Types, TurnTypes, AddProblem
  <2> QED
    BY <1>0, <1>2, <2>1, <2>2 DEF AddProblem, SetTypes
<1>3. ASSUME NEW p \in Problems, NEW o \in DoneWith \cup {"wrong"}, Record(p, o), UNCHANGED problems
      PROVE  SetTypes'
  <2>1. PICK more \in Seq(DoneWith \cup {"wrong"}) : attempts' = [attempts EXCEPT ![p] = more]
    BY <1>0, <1>3, RecordAdds
  <2>2. seen' \subseteq Problems
    BY <1>0, <1>3, RecordAdds DEF SetTypes
  <2> QED
    BY <1>0, <1>3, <2>1, <2>2 DEF SetTypes
<1>4. ASSUME NEW p \in Problems, AnswerProblem(p) \/ MarkProblem(p) \/ RevealProblem(p)
      PROVE  SetTypes'
  BY <1>0, <1>3, <1>4 DEF AnswerProblem, MarkProblem, RevealProblem, DoneWith, SetTypes
<1>5. ASSUME NEW cs, Forget(cs) PROVE SetTypes'
  BY <1>0, <1>5 DEF Forget, SetTypes, DeletedProblem, NoProblem
<1>6. ASSUME NEW c \in Chats, DeleteChat(c) PROVE SetTypes'
  BY <1>0, <1>5, <1>6 DEF DeleteChat, SetTypes
<1>7. ASSUME NEW k \in Courses, DeleteCourse(k) PROVE SetTypes'
  BY <1>5, <1>7 DEF DeleteCourse
<1> QED
  BY <1>1, <1>2, <1>4, <1>6, <1>7, SetsStay

\* A course never has more materials than it may, and all keeps its type.
THEOREM LibraryTyped == Spec => []TypeOK
<1>1. Types /\ [Next]_vars => Types'
  BY DiskTyped, ChatsTyped, CoursesTyped, TurnTyped, SetsTyped DEF Types
<1>2. Types /\ UNCHANGED vars => Types'
  BY <1>1
<1> QED
  BY <1>1, InitTypes, TypesCover, PTL DEF Spec

-----------------------------------------------------------------------------
(* Files and rows *)

\* What is still read has no row yet.
Tidy == (\A u \in reading : rows[u] = "new") /\ FilesMatchRows

LEMMA InitTidy == Init => Tidy
  BY DEF Init, Tidy, FilesMatchRows, Stored, Kinds

LEMMA TidyNext == Types /\ Types' /\ Tidy /\ [Next]_vars => Tidy'
<1> SUFFICES ASSUME Types, Types', Tidy, [Next]_vars PROVE Tidy'
  OBVIOUS
<1> USE DEF Tidy, FilesMatchRows, Stored, Kinds, Cut, Trouble
<1>0. DiskTypes /\ DiskTypes'
  BY DEF Types
<1>1. CASE UNCHANGED <<diskVars, drawnIn, faultVars>>
  BY <1>1
<1>2. ASSUME NEW u \in Uploads, rows[u] = "new", u \notin reading,
             disk' = disk \cup {<<u, "file">>}, UNCHANGED <<reading, restarts>>,
             \/ rows' = [rows EXCEPT ![u] = "image"] /\ UNCHANGED cuts
             \/ rows' = [rows EXCEPT ![u] = "gone"] /\ Cut
      PROVE  Tidy'
  BY <1>0, <1>2 DEF DiskTypes
<1>3. ASSUME NEW u \in Uploads, UploadImage(u) PROVE Tidy'
  <2> HIDE DEF Tidy
  <2> QED
    BY <1>2, <1>3 DEF UploadImage, Saved, Inserted
<1>4. ASSUME NEW u \in Uploads, Draw(u) PROVE Tidy'
  <2> HIDE DEF Tidy
  <2> QED
    BY <1>2, <1>4 DEF Draw, Saved, Inserted
<1>5. ASSUME NEW u \in Uploads, UploadDocument(u) PROVE Tidy'
  BY <1>0, <1>5 DEF UploadDocument, DiskTypes
<1>6. ASSUME NEW u \in Uploads, Extracted(u) PROVE Tidy'
  BY <1>0, <1>6 DEF Extracted, SavedDocument, Inserted, FilesOf, DiskTypes
<1>7. ASSUME NEW u \in Uploads, Rejected(u) PROVE Tidy'
  BY <1>0, <1>7 DEF Rejected, DiskTypes
<1>8. ASSUME NEW us, us \subseteq Stored, NEW removed, removed \subseteq us, Dropped(us, removed),
             (removed = us /\ UNCHANGED cuts) \/ Cut, UNCHANGED <<reading, restarts>>
      PROVE  Tidy'
  BY <1>0, <1>8 DEF Dropped, FilesOf, DiskTypes
<1>9. ASSUME NEW c \in Chats, DeleteChat(c) PROVE Tidy'
  <2>1. Owned(c) \subseteq Stored
    BY DEF Owned
  <2>2. CASE Refused(c)
    BY <1>9, <2>2 DEF DeleteChat
  <2>3. CASE ~Refused(c)
    <3> HIDE DEF Tidy
    <3> QED
      BY <1>8, <1>9, <2>1, <2>3 DEF DeleteChat
  <2> QED
    BY <2>2, <2>3
<1>10. ASSUME NEW k \in Courses, DeleteCourse(k) PROVE Tidy'
  <2> DEFINE cs == {c \in Live : chats[c] = k}
             theirs == UNION {Owned(c) : c \in cs}
             free == Unused(MaterialsOf(k), {m \in materials : m[1] # k}, cs)
  <2>1. theirs \subseteq Stored /\ free \subseteq Stored
    BY DEF Owned, Unused
  <2>2. /\ UNCHANGED <<reading, restarts>>
        /\ \/ Dropped(theirs \cup free, theirs \cup free) /\ UNCHANGED cuts
           \/ (Dropped(theirs \cup free, theirs) \/ Dropped(theirs, theirs)) /\ Cut
    BY <1>10 DEF DeleteCourse
  <2> HIDE DEF Tidy, theirs, free
  <2> QED
    BY <1>8, <2>1, <2>2
<1>11. ASSUME NEW k \in Courses, NEW u \in Uploads, RemoveMaterial(k, u) PROVE Tidy'
  BY <1>8, <1>11 DEF RemoveMaterial, Unused
<1>12. CASE Restart
  BY <1>0, <1>12 DEF Restart, DiskTypes
<1> QED
  BY <1>1, <1>3, <1>4, <1>5, <1>6, <1>7, <1>9, <1>10, <1>11, <1>12, DiskStays

\* Every row has its files; a file has its row, unless a step was cut short or it is
\* being read.
THEOREM FilesAndRowsAgree == Spec => []FilesMatchRows
<1>1. Types /\ [Next]_vars => Types'
  BY DiskTyped, ChatsTyped, CoursesTyped, TurnTyped, SetsTyped DEF Types
<1>2. Tidy => FilesMatchRows
  BY DEF Tidy
<1> QED
  BY <1>1, <1>2, InitTypes, InitTidy, TidyNext, PTL DEF Spec

-----------------------------------------------------------------------------
(* What messages refer to *)

Photo(u) == rows[u] \in {"image", "gone"} /\ drawnIn[u] = None
Paper(u) == rows[u] \in {"document", "gone"}
DrawnFor(u, c) == rows[u] \in {"image", "gone"} /\ drawnIn[u] = c

\* A photo is no document and no drawing, for ever.
Sorted ==
  /\ \A c \in Chats : /\ \A u \in images[c] : Photo(u)
                      /\ \A u \in docs[c] : Paper(u)
                      /\ \A u \in figures[c] : DrawnFor(u, c)
  /\ search # None => /\ \A u \in search.photo : Photo(u)
                      /\ \A u \in search.docs : Paper(u)
  /\ turn # None => /\ turn.chat \in {None, turn.home}
                    /\ \A u \in turn.drawn : DrawnFor(u, turn.home)

\* An id is given out once: a row keeps its kind until it goes.
LEMMA RowsKeepKind ==
  Types /\ Tidy /\ [Next]_vars =>
    \A u \in Uploads : rows[u] # "new" => rows'[u] \in {rows[u], "gone"} /\ drawnIn'[u] = drawnIn[u]
<1> SUFFICES ASSUME Types, Tidy, [Next]_vars, NEW u \in Uploads, rows[u] # "new"
             PROVE  rows'[u] \in {rows[u], "gone"} /\ drawnIn'[u] = drawnIn[u]
  OBVIOUS
<1>0. rows \in [Uploads -> Kinds \cup {"new", "gone"}] /\ drawnIn \in [Uploads -> Chats \cup {None}]
  BY DEF Types, DiskTypes
<1>1. CASE UNCHANGED <<diskVars, drawnIn, faultVars>>
  BY <1>1
<1>2. ASSUME NEW x \in Uploads, UploadImage(x) \/ UploadDocument(x) \/ Extracted(x) \/ Rejected(x)
      PROVE  rows'[u] \in {rows[u], "gone"} /\ drawnIn'[u] = drawnIn[u]
  BY <1>0, <1>2 DEF Tidy, UploadImage, UploadDocument, Extracted, Rejected, Saved, SavedDocument,
                    Inserted
<1>3. ASSUME NEW x \in Uploads, Draw(x)
      PROVE  rows'[u] \in {rows[u], "gone"} /\ drawnIn'[u] = drawnIn[u]
  BY <1>0, <1>3 DEF Draw, Saved, Inserted
<1>4. ASSUME NEW c \in Chats, DeleteChat(c)
      PROVE  rows'[u] \in {rows[u], "gone"} /\ drawnIn'[u] = drawnIn[u]
  BY <1>0, <1>4 DEF DeleteChat, Dropped
<1>5. ASSUME NEW k \in Courses, DeleteCourse(k)
      PROVE  rows'[u] \in {rows[u], "gone"} /\ drawnIn'[u] = drawnIn[u]
  BY <1>0, <1>5 DEF DeleteCourse, Dropped
<1>6. ASSUME NEW k \in Courses, NEW x \in Uploads, RemoveMaterial(k, x)
      PROVE  rows'[u] \in {rows[u], "gone"} /\ drawnIn'[u] = drawnIn[u]
  BY <1>0, <1>6 DEF RemoveMaterial, Dropped
<1>7. CASE Restart
  BY <1>0, <1>7 DEF Restart
<1> QED
  BY <1>1, <1>2, <1>3, <1>4, <1>5, <1>6, <1>7, DiskStays

LEMMA InitSorted == Init => Sorted
  BY DEF Init, Sorted

LEMMA SortedNext == Types /\ Types' /\ Tidy /\ Sorted /\ [Next]_vars => Sorted'
<1> SUFFICES ASSUME Types, Types', Tidy, Sorted, [Next]_vars PROVE Sorted'
  OBVIOUS
<1>a. ASSUME NEW u \in Uploads
      PROVE  /\ Photo(u) => Photo(u)'
             /\ Paper(u) => Paper(u)'
             /\ \A c : DrawnFor(u, c) => DrawnFor(u, c)'
  BY RowsKeepKind DEF Photo, Paper, DrawnFor
<1>b. \A photo \in Photos, ds \in Documents :
        /\ photo \subseteq Uploads /\ \A u \in photo : Photo(u)
        /\ ds \subseteq Uploads /\ \A u \in ds : Paper(u)
  BY DEF Photos, Documents, Stored, Photo, Paper
<1>c. turn # None => turn.home \in Chats /\ turn.drawn \subseteq Uploads
  BY DEF Types, TurnTypes
<1>d. search # None => search.photo \subseteq Uploads /\ search.docs \subseteq Uploads
  BY DEF Types, TurnTypes
<1>e. ChatTypes
  BY DEF Types
<1>1. \A c \in Chats : /\ \A u \in images'[c] : Photo(u)'
                       /\ \A u \in docs'[c] : Paper(u)'
                       /\ \A u \in figures'[c] : DrawnFor(u, c)'
  <2> SUFFICES ASSUME NEW c \in Chats
               PROVE  /\ \A u \in images'[c] : Photo(u)'
                      /\ \A u \in docs'[c] : Paper(u)'
                      /\ \A u \in figures'[c] : DrawnFor(u, c)'
    OBVIOUS
  <2>1. /\ \A u \in images[c] : Photo(u)'
        /\ \A u \in docs[c] : Paper(u)'
        /\ \A u \in figures[c] : DrawnFor(u, c)'
    BY <1>a, <1>e DEF Sorted, ChatTypes
  <2>2. CASE UNCHANGED <<chatVars, shared>>
    BY <2>1, <2>2
  <2>3. ASSUME NEW photo \in Photos, NEW ds \in Documents, NEW x \in Chats,
               NEW where \in {"plain"} \cup Courses, Send(x, where, photo, ds)
        PROVE  /\ images'[c] \subseteq images[c] \cup photo
               /\ docs'[c] \subseteq docs[c] \cup ds /\ figures' = figures
    BY <1>e, <2>3 DEF Send, Message, ChatTypes
  <2>4. ASSUME NEW x \in Chats, EndSearch(x)
        PROVE  /\ images'[c] \subseteq images[c] \cup search.photo
               /\ docs'[c] \subseteq docs[c] \cup search.docs /\ figures' = figures
               /\ search # None
    BY <1>e, <2>4 DEF EndSearch, Message, ChatTypes
  <2>5. ASSUME Reply
        PROVE  /\ UNCHANGED <<images, docs>> /\ turn # None
               /\ figures'[c] \subseteq figures[c] \cup (IF turn.home = c THEN turn.drawn ELSE {})
    BY <1>c, <1>e, <2>5 DEF Reply, ChatTypes, Sorted
  <2>6. ASSUME NEW cs, Forget(cs)
        PROVE  /\ images'[c] \subseteq images[c] /\ docs'[c] \subseteq docs[c]
               /\ figures'[c] \subseteq figures[c]
    BY <1>e, <2>6 DEF Forget
  <2>7. ASSUME NEW x \in Chats, DeleteChat(x)
        PROVE  /\ images'[c] \subseteq images[c] /\ docs'[c] \subseteq docs[c]
               /\ figures'[c] \subseteq figures[c]
    BY <2>6, <2>7 DEF DeleteChat
  <2>8. ASSUME NEW k \in Courses, DeleteCourse(k)
        PROVE  /\ images'[c] \subseteq images[c] /\ docs'[c] \subseteq docs[c]
               /\ figures'[c] \subseteq figures[c]
    BY <2>6, <2>8 DEF DeleteCourse
  <2>9. ASSUME NEW photo, NEW ds,
               images'[c] \subseteq images[c] \cup photo, \A u \in photo : Photo(u)',
               docs'[c] \subseteq docs[c] \cup ds, \A u \in ds : Paper(u)', figures' = figures
        PROVE  /\ \A u \in images'[c] : Photo(u)'
               /\ \A u \in docs'[c] : Paper(u)'
               /\ \A u \in figures'[c] : DrawnFor(u, c)'
    BY <2>1, <2>9
  <2>10. CASE \E photo \in Photos, ds \in Documents, x \in Chats, where \in {"plain"} \cup Courses :
                Send(x, where, photo, ds)
    <3>1. PICK photo \in Photos, ds \in Documents, x \in Chats, where \in {"plain"} \cup Courses :
            Send(x, where, photo, ds)
      BY <2>10
    <3>2. (\A u \in photo : Photo(u)') /\ \A u \in ds : Paper(u)'
      BY <1>a, <1>b
    <3> QED
      BY <2>3, <2>9, <3>1, <3>2
  <2>11. CASE \E x \in Chats : EndSearch(x)
    <3>1. search # None
      BY <2>4, <2>11
    <3>2. (\A u \in search.photo : Photo(u)') /\ \A u \in search.docs : Paper(u)'
      BY <1>a, <1>d, <3>1 DEF Sorted
    <3> QED
      BY <2>4, <2>9, <2>11, <3>2
  <2>12. CASE Reply
    <3>1. turn.home = c => \A u \in turn.drawn : DrawnFor(u, c)'
      BY <1>a, <1>c, <2>5, <2>12 DEF Sorted
    <3> QED
      BY <2>1, <2>5, <2>12, <3>1
  <2> QED
    BY <2>1, <2>2, <2>7, <2>8, <2>10, <2>11, <2>12, ChatsStay
<1>2. search' # None => /\ \A u \in search'.photo : Photo(u)'
                        /\ \A u \in search'.docs : Paper(u)'
  <2>1. CASE search' = search
    BY <1>a, <1>d, <2>1 DEF Sorted
  <2>2. CASE search' = None
    BY <2>2
  <2>3. ASSUME NEW photo \in Photos, NEW ds \in Documents, NEW c \in Chats \cup {None},
               BeginSearch(c, photo, ds)
        PROVE  /\ \A u \in search'.photo : Photo(u)'
               /\ \A u \in search'.docs : Paper(u)'
    <3>1. search'.photo = photo /\ search'.docs = ds
      BY <2>3 DEF BeginSearch
    <3> QED
      BY <1>a, <1>b, <3>1
  <2>4. \/ search' = search \/ search' = None
        \/ \E photo \in Photos, ds \in Documents, c \in Chats \cup {None} : BeginSearch(c, photo, ds)
    BY TurnStays DEF EndSearch, StartTurn, Draw, AddProblem, Reply, NoReply, DeleteChat,
                     DeleteCourse, Restart
  <2> QED
    BY <2>1, <2>2, <2>3, <2>4
<1>3. turn' # None => /\ turn'.chat \in {None, turn'.home}
                      /\ \A u \in turn'.drawn : DrawnFor(u, turn.home)'
  <2>1. ASSUME turn # None, turn'.home = turn.home, turn'.drawn = turn.drawn,
               turn'.chat \in {None, turn.chat}
        PROVE  /\ turn'.chat \in {None, turn'.home}
               /\ \A u \in turn'.drawn : DrawnFor(u, turn.home)'
    BY <1>a, <1>c, <2>1 DEF Sorted
  <2>2. CASE turn' = turn
    BY <2>1, <2>2
  <2>3. CASE turn' = None
    BY <2>3
  <2>4. ASSUME NEW c \in Chats, StartTurn(c)
        PROVE  /\ turn'.chat \in {None, turn'.home}
               /\ \A u \in turn'.drawn : DrawnFor(u, turn.home)'
    BY <2>4 DEF StartTurn
  <2>5. ASSUME NEW u \in Uploads, Draw(u), turn' # turn
        PROVE  /\ turn'.chat \in {None, turn'.home}
               /\ \A x \in turn'.drawn : DrawnFor(x, turn.home)'
    <3>1. turn # None /\ turn' = [turn EXCEPT !.drawn = turn.drawn \cup {u}]
      BY <2>5 DEF Draw
    <3>2. /\ turn'.chat = turn.chat /\ turn'.home = turn.home
          /\ turn'.drawn = turn.drawn \cup {u}
      BY <3>1 DEF Types, TurnTypes
    <3>3. drawnIn'[u] = turn.home /\ rows'[u] \in {"image", "gone"}
      BY <2>5 DEF Draw, Saved, Inserted, Types, DiskTypes
    <3> QED
      BY <1>a, <1>c, <3>1, <3>2, <3>3 DEF Sorted, DrawnFor
  <2>6. ASSUME NEW p \in Problems, NEW kind, AddProblem(p, kind)
        PROVE  /\ turn'.chat \in {None, turn'.home}
               /\ \A u \in turn'.drawn : DrawnFor(u, turn.home)'
    <3>1. /\ turn # None /\ turn'.chat = turn.chat /\ turn'.home = turn.home
          /\ turn'.drawn = turn.drawn
      BY <2>6 DEF AddProblem, Types, TurnTypes
    <3> QED
      BY <2>1, <3>1
  <2>7. ASSUME NEW cs, turn' = Loose(cs), turn' # turn
        PROVE  /\ turn'.chat \in {None, turn'.home}
               /\ \A u \in turn'.drawn : DrawnFor(u, turn.home)'
    <3>1. /\ turn # None /\ turn'.chat = None /\ turn'.home = turn.home
          /\ turn'.drawn = turn.drawn
      BY <2>7 DEF Loose, Types, TurnTypes
    <3> QED
      BY <2>1, <3>1
  <2>8. \/ turn' = turn \/ turn' = None
        \/ \E c \in Chats : StartTurn(c)
        \/ \E u \in Uploads : Draw(u)
        \/ \E p \in Problems, kind \in {"graded", "short"} : AddProblem(p, kind)
        \/ \E cs : turn' = Loose(cs)
    BY TurnStays DEF BeginSearch, EndSearch, Reply, NoReply, DeleteChat, DeleteCourse, Restart
  <2> QED
    BY <2>2, <2>3, <2>4, <2>5, <2>6, <2>7, <2>8
<1> QED
  BY <1>1, <1>2, <1>3 DEF Sorted

-----------------------------------------------------------------------------
(* Chats, and the turn that runs in one *)

\* A chat that is there keeps its place; a document in two of them is known to be.
Apart ==
  /\ \A c \in Chats : chats[c] = "new" => UsedIn(c) = {}
  /\ \A c, d \in Live : c # d => docs[c] \cap docs[d] \subseteq shared
  /\ search # None /\ search.chat \in Chats => chats[search.chat] \in {"plain", "gone"}

\* A turn that was not cut loose belongs to a chat that is there.
Placed ==
  turn # None /\ turn.chat # None =>
    turn.chat \in Live /\ (turn.studies => chats[turn.chat] \in Courses)

LEMMA InitApart == Init => Apart /\ Placed
  BY DEF Init, Apart, Placed, UsedIn, Live

\* A chat that is there stays what it is, or goes.
LEMMA ChatsKeepPlace ==
  Types /\ Apart /\ [Next]_vars =>
    \A c \in Chats : chats[c] # "new" => chats'[c] \in {chats[c], "gone"}
<1> SUFFICES ASSUME Types, Apart, [Next]_vars, NEW c \in Chats, chats[c] # "new"
             PROVE  chats'[c] \in {chats[c], "gone"}
  OBVIOUS
<1>0. chats \in [Chats -> {"new", "plain", "gone"} \cup Courses]
  BY DEF Types, ChatTypes
<1>1. ASSUME NEW x \in Chats, NEW where, NEW photo, NEW ds, Send(x, where, photo, ds)
      PROVE  chats'[c] \in {chats[c], "gone"}
  BY <1>0, <1>1 DEF Send
<1>2. ASSUME NEW x \in Chats, EndSearch(x) PROVE chats'[c] \in {chats[c], "gone"}
  BY <1>0, <1>2 DEF EndSearch
<1>3. ASSUME NEW x \in Chats, DeleteChat(x) PROVE chats'[c] \in {chats[c], "gone"}
  BY <1>0, <1>3 DEF DeleteChat, Forget
<1>4. ASSUME NEW k \in Courses, DeleteCourse(k) PROVE chats'[c] \in {chats[c], "gone"}
  BY <1>0, <1>4 DEF DeleteCourse, Forget
<1>5. CASE UNCHANGED chats
  BY <1>5
<1> QED
  BY <1>1, <1>2, <1>3, <1>4, <1>5, ChatsStay DEF Reply

LEMMA PlacedNext == Types /\ Types' /\ Apart /\ Placed /\ [Next]_vars => Placed'
<1> SUFFICES ASSUME Types, Types', Apart, Placed, [Next]_vars, turn' # None, turn'.chat # None
             PROVE  turn'.chat \in Live' /\ (turn'.studies => chats'[turn'.chat] \in Courses)
  BY DEF Placed
<1>0. ChatTypes /\ TurnTypes /\ ChatTypes' /\ TurnTypes'
  BY DEF Types
<1>1. ASSUME turn # None, turn'.chat = turn.chat, turn'.studies = turn.studies,
             chats'[turn.chat] # "gone"
      PROVE  turn'.chat \in Live' /\ (turn'.studies => chats'[turn'.chat] \in Courses)
  <2>1. turn.chat \in Chats /\ chats[turn.chat] \notin {"new", "gone"}
    BY <1>1 DEF Placed, Live
  <2>2. chats'[turn.chat] = chats[turn.chat]
    BY <1>1, <2>1, ChatsKeepPlace
  <2> QED
    BY <1>1, <2>1, <2>2 DEF Placed, Live
<1>2. ASSUME NEW cs, Forget(cs), turn' = Loose(cs)
      PROVE  /\ turn # None /\ turn'.chat = turn.chat /\ turn'.studies = turn.studies
             /\ chats'[turn.chat] # "gone"
  <2>1. turn # None /\ turn' = turn /\ turn.chat \notin cs
    BY <1>0, <1>2 DEF Loose, TurnTypes
  <2>2. turn.chat \in Chats /\ chats[turn.chat] # "gone"
    BY <2>1 DEF Placed, Live
  <2> QED
    BY <1>2, <2>1, <2>2 DEF Forget
<1>3. ASSUME NEW c \in Chats, DeleteChat(c)
      PROVE  turn'.chat \in Live' /\ (turn'.studies => chats'[turn'.chat] \in Courses)
  <2>1. CASE Refused(c)
    <3>1. turn # None /\ turn' = turn /\ chats' = chats
      BY <1>0, <1>3, <2>1 DEF DeleteChat, Loose, TurnTypes
    <3> QED
      BY <3>1 DEF Placed, Live
  <2>2. CASE ~Refused(c)
    BY <1>1, <1>2, <1>3, <2>2 DEF DeleteChat
  <2> QED
    BY <2>1, <2>2
<1>4. ASSUME NEW k \in Courses, DeleteCourse(k)
      PROVE  turn'.chat \in Live' /\ (turn'.studies => chats'[turn'.chat] \in Courses)
  BY <1>1, <1>2, <1>4 DEF DeleteCourse
<1>5. ASSUME NEW c \in Chats, StartTurn(c)
      PROVE  turn'.chat \in Live' /\ (turn'.studies => chats'[turn'.chat] \in Courses)
  BY <1>0, <1>5 DEF StartTurn, ChatTypes, Live
<1>6. ASSUME NEW u \in Uploads, Draw(u)
      PROVE  /\ turn # None /\ turn'.chat = turn.chat /\ turn'.studies = turn.studies
             /\ chats' = chats
  BY <1>0, <1>6 DEF Draw, TurnTypes
<1>7. ASSUME NEW p \in Problems, NEW kind, AddProblem(p, kind)
      PROVE  /\ turn # None /\ turn'.chat = turn.chat /\ turn'.studies = turn.studies
             /\ chats' = chats
  BY <1>0, <1>7 DEF AddProblem, TurnTypes
<1>8. CASE turn' = turn /\ ~(\E c \in Chats : DeleteChat(c)) /\ ~(\E k \in Courses : DeleteCourse(k))
  <2>1. turn.chat \in Chats /\ chats[turn.chat] \notin {"new", "gone"} /\ turn # None
    BY <1>8 DEF Placed, Live
  <2>2. chats'[turn.chat] # "gone"
    <3>1. CASE chats' = chats
      BY <2>1, <3>1
    <3>2. ASSUME NEW x \in Chats, NEW where \in {"plain"} \cup Courses, NEW photo, NEW ds,
                 Send(x, where, photo, ds)
          PROVE  chats'[turn.chat] # "gone"
      BY <1>0, <2>1, <3>2 DEF Send, ChatTypes
    <3>3. ASSUME NEW x \in Chats, EndSearch(x) PROVE chats'[turn.chat] # "gone"
      BY <1>0, <2>1, <3>3 DEF EndSearch, ChatTypes
    <3> QED
      BY <1>8, <3>1, <3>2, <3>3, ChatsStay DEF Reply
  <2> QED
    BY <1>1, <1>8, <2>1, <2>2
<1>9. ASSUME turn # None, turn'.chat = turn.chat, turn'.studies = turn.studies, chats' = chats
      PROVE  turn'.chat \in Live' /\ (turn'.studies => chats'[turn'.chat] \in Courses)
  BY <1>9 DEF Placed, Live
<1>10. \/ turn' = turn \/ turn' = None
       \/ \E c \in Chats : StartTurn(c) \/ DeleteChat(c)
       \/ \E u \in Uploads : Draw(u)
       \/ \E p \in Problems, kind \in {"graded", "short"} : AddProblem(p, kind)
       \/ \E k \in Courses : DeleteCourse(k)
  BY TurnStays DEF BeginSearch, EndSearch, Reply, NoReply, Restart
<1> QED
  BY <1>3, <1>4, <1>5, <1>6, <1>7, <1>8, <1>9, <1>10

LEMMA ApartNext == Types /\ Types' /\ Apart /\ Placed /\ [Next]_vars => Apart'
<1> SUFFICES ASSUME Types, Types', Apart, Placed, [Next]_vars PROVE Apart'
  OBVIOUS
<1> DEFINE Fresh == \A c \in Chats : chats[c] = "new" => UsedIn(c) = {}
           Pairs == \A c, d \in Live : c # d => docs[c] \cap docs[d] \subseteq shared
<1>0. ChatTypes /\ ChatTypes' /\ TurnTypes /\ Fresh /\ Pairs
  BY DEF Types, Apart
<1>1. search' # None /\ search'.chat \in Chats => chats'[search'.chat] \in {"plain", "gone"}
  <2>1. CASE search' = search
    <3>1. search # None /\ search.chat \in Chats =>
            chats[search.chat] \in {"plain", "gone"} /\ chats[search.chat] # "new"
      BY DEF Apart
    <3> QED
      BY <2>1, <3>1, ChatsKeepPlace
  <2>2. CASE search' = None
    BY <2>2
  <2>3. ASSUME NEW c \in Chats \cup {None}, NEW photo, NEW ds, BeginSearch(c, photo, ds)
        PROVE  search'.chat \in Chats => chats'[search'.chat] \in {"plain", "gone"}
    BY <2>3 DEF BeginSearch
  <2>4. \/ search' = search \/ search' = None
        \/ \E photo \in Photos, ds \in Documents, c \in Chats \cup {None} : BeginSearch(c, photo, ds)
    BY TurnStays DEF EndSearch, StartTurn, Draw, AddProblem, Reply, NoReply, DeleteChat,
                     DeleteCourse, Restart
  <2> QED
    BY <2>1, <2>2, <2>3, <2>4
<1>2. ASSUME NEW x \in Chats, chats[x] # "gone", chats'[x] # "new",
             \A d \in Chats \ {x} : chats'[d] = chats[d], UNCHANGED figures,
             \/ UNCHANGED <<images, docs, shared>>
             \/ \E photo, ds : Message(x, photo, ds)
      PROVE  Fresh' /\ Pairs'
  <2>1. \A d \in Chats \ {x} : images'[d] = images[d] /\ docs'[d] = docs[d] /\ figures'[d] = figures[d]
    BY <1>0, <1>2 DEF Message, ChatTypes
  <2>2. Fresh'
    BY <1>0, <1>2, <2>1 DEF UsedIn, ChatTypes
  <2>3. ASSUME NEW d \in Chats \ {x}, chats[d] \notin {"new", "gone"}
        PROVE  docs'[x] \cap docs'[d] \subseteq shared'
    <3>1. docs[x] \cap docs[d] \subseteq shared
      BY <1>0, <1>2, <2>3 DEF UsedIn, Live
    <3>2. CASE UNCHANGED <<images, docs, shared>>
      BY <3>1, <3>2
    <3>3. ASSUME NEW photo, NEW ds, Message(x, photo, ds)
          PROVE  docs'[x] \cap docs'[d] \subseteq shared'
      <4>1. docs'[x] = docs[x] \cup ds /\ docs'[d] = docs[d]
        BY <1>0, <2>3, <3>3 DEF Message, ChatTypes
      <4>2. /\ d \in Live \ {x} /\ docs[d] \subseteq UsedIn(d)
            /\ shared \subseteq shared'
            /\ (photo \cup ds) \cap UNION {UsedIn(y) : y \in Live \ {x}} \subseteq shared'
        BY <2>3, <3>3 DEF Message, Live, UsedIn
      <4>3. UsedIn(d) \subseteq UNION {UsedIn(y) : y \in Live \ {x}}
        BY <4>2
      <4> QED
        BY <3>1, <4>1, <4>2, <4>3
    <3> QED
      BY <1>2, <3>2, <3>3
  <2>4. shared \subseteq shared'
    BY <1>2 DEF Message
  <2>5. Pairs'
    BY <1>0, <1>2, <2>1, <2>3, <2>4 DEF Live
  <2> QED
    BY <2>2, <2>5
<1>3. ASSUME NEW x \in Chats, NEW where \in {"plain"} \cup Courses, NEW photo, NEW ds,
             Send(x, where, photo, ds)
      PROVE  Fresh' /\ Pairs'
  <2>1. /\ chats[x] # "gone" /\ chats'[x] # "new" /\ UNCHANGED figures
        /\ \A d \in Chats \ {x} : chats'[d] = chats[d]
        /\ \E p, s : Message(x, p, s)
    BY <1>0, <1>3 DEF Send, ChatTypes
  <2> QED
    BY <1>2, <2>1
<1>4. ASSUME NEW x \in Chats, EndSearch(x) PROVE Fresh' /\ Pairs'
  <2>1. CASE chats'[x] = "gone"
    <3>1. chats' = chats /\ UNCHANGED <<images, docs, figures, shared>>
      BY <1>0, <1>4, <2>1 DEF EndSearch, ChatTypes
    <3> QED
      BY <1>0, <3>1 DEF UsedIn, Live
  <2>2. CASE chats'[x] # "gone"
    <3>1. chats[x] # "gone" /\ \A d \in Chats \ {x} : chats'[d] = chats[d]
      BY <1>0, <1>4, <2>2 DEF EndSearch, ChatTypes
    <3>2. chats'[x] # "new"
      BY <1>0, <1>4 DEF EndSearch, ChatTypes, Apart
    <3>3. UNCHANGED figures /\ (UNCHANGED <<images, docs, shared>> \/ \E p, s : Message(x, p, s))
      BY <1>4 DEF EndSearch
    <3> QED
      BY <1>2, <2>2, <3>1, <3>2, <3>3
  <2> QED
    BY <2>1, <2>2
<1>5. ASSUME Reply PROVE Fresh' /\ Pairs'
  <2>1. \A c \in Chats : chats[c] = "new" => UsedIn(c)' = UsedIn(c)
    BY <1>0, <1>5 DEF Reply, UsedIn, Placed, Live, ChatTypes
  <2>2. UNCHANGED <<chats, docs, shared>>
    BY <1>5 DEF Reply
  <2>3. Fresh'
    BY <1>0, <2>1, <2>2
  <2>4. Pairs'
    BY <1>0, <2>2 DEF Live
  <2> QED
    BY <2>3, <2>4
<1>6. ASSUME NEW cs, Forget(cs), UNCHANGED shared PROVE Fresh' /\ Pairs'
  BY <1>0, <1>6 DEF Forget, UsedIn, Live
<1>7. ASSUME NEW c \in Chats, DeleteChat(c) PROVE Fresh' /\ Pairs'
  <2>1. CASE Refused(c)
    BY <1>0, <1>7, <2>1 DEF DeleteChat, UsedIn, Live
  <2>2. CASE ~Refused(c)
    BY <1>6, <1>7, <2>2 DEF DeleteChat
  <2> QED
    BY <2>1, <2>2
<1>8. ASSUME NEW k \in Courses, DeleteCourse(k) PROVE Fresh' /\ Pairs'
  <2> HIDE DEF Fresh, Pairs
  <2> QED
    BY <1>6, <1>8 DEF DeleteCourse
<1>9. ASSUME UNCHANGED <<chatVars, shared>> PROVE Fresh' /\ Pairs'
  <2>1. Fresh'
    BY <1>0, <1>9 DEF UsedIn
  <2>2. Pairs'
    BY <1>0, <1>9 DEF Live
  <2> QED
    BY <2>1, <2>2
<1>10. Fresh' /\ Pairs'
  <2> HIDE DEF Fresh, Pairs
  <2> QED
    BY <1>3, <1>4, <1>5, <1>7, <1>8, <1>9, ChatsStay
<1> QED
  BY <1>1, <1>10 DEF Apart

-----------------------------------------------------------------------------
(* What is in use *)

\* What courses, chats and the running turn refer to is there.
Held ==
  /\ \A k \in Courses, u \in Uploads : <<k, u>> \in materials => rows[u] = "document"
  /\ \A c \in Live : /\ images[c] \cup figures[c] \subseteq Stored
                     /\ docs[c] \subseteq Stored \cup shared
  /\ turn # None /\ turn.chat # None => turn.drawn \subseteq Stored

LEMMA InitHeld == Init => Held
  BY DEF Init, Held, Live

LEMMA HeldIsEnough == Types /\ Held => NothingInUseIsDeleted
  BY DEF Held, NothingInUseIsDeleted, Materials, Stored, Kinds

\* Who could miss upload u, but for chats cs.
Spared(u, cs) ==
  /\ \A d \in Live \ cs : u \notin images[d] /\ u \notin figures[d] /\ (u \in docs[d] => u \in shared)
  /\ turn # None /\ turn.chat # None /\ turn.chat \notin cs => u \notin turn.drawn

\* What is deleted along with a chat, no other chat and no course misses.
LEMMA OwnedAlone ==
  ASSUME Types, Sorted, Apart, NEW c \in Live, ~Refused(c), NEW u \in Owned(c)
  PROVE  /\ u \in Stored /\ \A k \in Courses : <<k, u>> \notin materials
         /\ Spared(u, {c})
<1> USE DEF Stored, Kinds
<1>0. ChatTypes /\ TurnTypes /\ c \in Chats
  BY DEF Types, Live
<1>1. u \in UsedIn(c) /\ u \in Stored /\ u \notin Materials
  BY DEF Owned
<1>2. \A k \in Courses : <<k, u>> \notin materials
  BY <1>1 DEF Materials
<1>3. \/ u \in images[c] /\ rows[u] = "image" /\ drawnIn[u] = None
      \/ u \in docs[c] /\ rows[u] = "document"
      \/ u \in figures[c] /\ rows[u] = "image" /\ drawnIn[u] = c
  BY <1>0, <1>1 DEF UsedIn, Sorted, Photo, Paper, DrawnFor
<1>4. ASSUME NEW d \in Live \ {c}
      PROVE  u \notin images[d] /\ u \notin figures[d] /\ (u \in docs[d] => u \in shared)
  <2>1. u \notin images[d]
    BY DEF Refused
  <2>2. d \in Chats /\ d # None /\ d # c
    BY DEF Live
  <2>3. u \notin figures[d]
    BY <1>3, <2>2 DEF Sorted, DrawnFor
  <2>4. u \in docs[d] => u \in docs[c]
    BY <1>3, <2>2 DEF Sorted, Paper
  <2>5. docs[c] \cap docs[d] \subseteq shared
    BY <1>0, <2>2 DEF Apart
  <2> QED
    BY <2>1, <2>3, <2>4, <2>5
<1>5. turn # None /\ turn.chat # None /\ turn.chat \notin {c} => u \notin turn.drawn
  BY <1>0, <1>3 DEF Sorted, DrawnFor, TurnTypes
<1> QED
  BY <1>1, <1>2, <1>4, <1>5 DEF Spared

\* What is deleted as unused is a document that nothing is left to miss.
LEMMA UnusedAlone ==
  ASSUME Types, Sorted, Held, NEW us \in SUBSET Materials, NEW ms, NEW cs, NEW u \in Unused(us, ms, cs)
  PROVE  /\ u \in Stored /\ \A k \in Courses : <<k, u>> \notin ms
         /\ Spared(u, cs)
<1>1. /\ u \in Materials /\ u \in Stored /\ \A k \in Courses : <<k, u>> \notin ms
      /\ \A d \in Live \ cs : u \notin docs[d]
  BY DEF Unused
<1>2. rows[u] = "document"
  BY <1>1 DEF Materials, Held
<1>3. \A d \in Live \ cs : u \notin images[d] /\ u \notin figures[d]
  BY <1>2 DEF Sorted, Photo, DrawnFor, Live
<1>4. turn # None => u \notin turn.drawn
  BY <1>2 DEF Sorted, DrawnFor
<1> QED
  BY <1>1, <1>3, <1>4 DEF Spared

\* A deletion removes only what is left without use.
LEMMA DeletionsSpare ==
  ASSUME Types, Sorted, Held,
         NEW us \in SUBSET Stored, NEW removed, Dropped(us, removed),
         NEW cs, \A u \in us : Spared(u, cs),
         \A k \in Courses, u \in us : <<k, u>> \notin materials', materials' \subseteq materials,
         \A d \in Live' : /\ d \in Live \ cs /\ images'[d] = images[d]
                          /\ docs'[d] = docs[d] /\ figures'[d] = figures[d],
         shared' = shared,
         turn' # None /\ turn'.chat # None => turn' = turn /\ turn.chat \notin cs
  PROVE  Held'
<1> USE DEF Stored, Kinds, Live
<1>0. DiskTypes /\ ChatTypes
  BY DEF Types
<1>1. \A u \in Uploads : rows'[u] = IF u \in us THEN "gone" ELSE rows[u]
  BY DEF Dropped
<1>2. \A k \in Courses, u \in Uploads : <<k, u>> \in materials' => rows'[u] = "document"
  BY <1>1 DEF Held
<1>3. ASSUME NEW d \in Live'
      PROVE  /\ images'[d] \cup figures'[d] \subseteq Stored'
             /\ docs'[d] \subseteq Stored' \cup shared'
  <2>1. /\ d \in Live \ cs /\ images'[d] = images[d]
        /\ docs'[d] = docs[d] /\ figures'[d] = figures[d]
    OBVIOUS
  <2>2. \A u \in us : u \notin images[d] /\ u \notin figures[d] /\ (u \in docs[d] => u \in shared)
    BY <2>1 DEF Spared
  <2>3. images[d] \cup figures[d] \subseteq Stored /\ docs[d] \subseteq Stored \cup shared
    BY <2>1 DEF Held
  <2>4. \A u \in Stored \ us : u \in Stored'
    BY <1>1
  <2> QED
    BY <2>1, <2>2, <2>3, <2>4
<1>4. turn' # None /\ turn'.chat # None => turn'.drawn \subseteq Stored'
  BY <1>1 DEF Held, Spared
<1> QED
  BY <1>2, <1>3, <1>4 DEF Held

LEMMA HeldAfterDeletion ==
  ASSUME Types, Types', Sorted, Apart, Held,
         \/ \E c \in Chats : DeleteChat(c)
         \/ \E k \in Courses : DeleteCourse(k)
         \/ \E k \in Courses, u \in Uploads : RemoveMaterial(k, u)
  PROVE  Held'
<1>0. ChatTypes /\ TurnTypes /\ CourseTypes
  BY DEF Types
<1>1. ASSUME NEW cs, Forget(cs)
      PROVE  \A d \in Live' : /\ d \in Live \ cs /\ images'[d] = images[d]
                              /\ docs'[d] = docs[d] /\ figures'[d] = figures[d]
  BY <1>1 DEF Forget, Live
<1>2. ASSUME NEW cs, turn' = Loose(cs)
      PROVE  turn' # None /\ turn'.chat # None => turn' = turn /\ turn.chat \notin cs
  BY <1>0, <1>2 DEF Loose, TurnTypes
<1>3. ASSUME NEW c \in Chats, DeleteChat(c) PROVE Held'
  <2>1. CASE Refused(c)
    <3>1. UNCHANGED <<rows, images, docs, figures, chats, materials, shared>>
      BY <1>3, <2>1 DEF DeleteChat
    <3>2. turn' # None /\ turn'.chat # None => turn' = turn
      BY <1>2, <1>3 DEF DeleteChat
    <3> QED
      BY <3>1, <3>2 DEF Held, Stored, Live
  <2>2. CASE ~Refused(c)
    <3>1. c \in Live /\ Forget({c}) /\ turn' = Loose({c}) /\ UNCHANGED <<materials, shared>>
      BY <1>3, <2>2 DEF DeleteChat
    <3>2. PICK removed : Dropped(Owned(c), removed)
      BY <1>3, <2>2 DEF DeleteChat
    <3>3. Owned(c) \in SUBSET Stored
      BY DEF Owned
    <3>4. /\ \A u \in Owned(c) : Spared(u, {c})
          /\ \A k \in Courses, u \in Owned(c) : <<k, u>> \notin materials'
      BY <2>2, <3>1, OwnedAlone
    <3>5. \A d \in Live' : /\ d \in Live \ {c} /\ images'[d] = images[d]
                           /\ docs'[d] = docs[d] /\ figures'[d] = figures[d]
      BY <1>1, <3>1
    <3>6. turn' # None /\ turn'.chat # None => turn' = turn /\ turn.chat \notin {c}
      BY <1>2, <3>1
    <3>7. materials' \subseteq materials /\ shared' = shared
      BY <3>1
    <3> QED
      BY <3>2, <3>3, <3>4, <3>5, <3>6, <3>7, DeletionsSpare
  <2> QED
    BY <2>1, <2>2
<1>4. ASSUME NEW k \in Courses, DeleteCourse(k) PROVE Held'
  <2> DEFINE cs == {c \in Live : chats[c] = k}
             theirs == UNION {Owned(c) : c \in cs}
             left == {m \in materials : m[1] # k}
             free == Unused(MaterialsOf(k), left, cs)
  <2>1. /\ \A c \in cs : ~Refused(c)
        /\ Forget(cs) /\ turn' = Loose(cs) /\ materials' = left /\ shared' = shared
    BY <1>4 DEF DeleteCourse
  <2>2. PICK us \in {theirs \cup free, theirs} : \E removed : Dropped(us, removed)
    BY <1>4 DEF DeleteCourse
  <2>3. \A u \in theirs : /\ u \in Stored /\ \A x \in Courses : <<x, u>> \notin left
                          /\ Spared(u, cs)
    <3>1. ASSUME NEW c \in cs, NEW u \in Owned(c)
          PROVE  /\ u \in Stored /\ \A x \in Courses : <<x, u>> \notin materials
                 /\ Spared(u, cs)
      <4>1. /\ u \in Stored /\ \A x \in Courses : <<x, u>> \notin materials
            /\ Spared(u, {c})
        BY <2>1, OwnedAlone
      <4>2. {c} \subseteq cs
        OBVIOUS
      <4> QED
        BY <4>1, <4>2 DEF Spared
    <3> QED
      BY <3>1
  <2>4. MaterialsOf(k) \in SUBSET Materials
    BY DEF MaterialsOf, Materials
  <2>5. \A u \in free : /\ u \in Stored /\ \A x \in Courses : <<x, u>> \notin left
                        /\ Spared(u, cs)
    BY <2>4, UnusedAlone
  <2>6. left \subseteq materials
    OBVIOUS
  <2> HIDE DEF cs, theirs, left, free
  <2>7. us \in SUBSET Stored /\ \A u \in us : Spared(u, cs) /\ \A x \in Courses : <<x, u>> \notin left
    BY <2>3, <2>5
  <2>8. \A d \in Live' : /\ d \in Live \ cs /\ images'[d] = images[d]
                         /\ docs'[d] = docs[d] /\ figures'[d] = figures[d]
    BY <1>1, <2>1
  <2>9. turn' # None /\ turn'.chat # None => turn' = turn /\ turn.chat \notin cs
    BY <1>2, <2>1
  <2>10. materials' \subseteq materials /\ shared' = shared
    BY <2>1, <2>6
  <2>11. \A u \in us : Spared(u, cs) /\ \A x \in Courses : <<x, u>> \notin materials'
    BY <2>1, <2>7
  <2> QED
    BY <2>2, <2>7, <2>8, <2>9, <2>10, <2>11, DeletionsSpare
<1>5. ASSUME NEW k \in Courses, NEW u \in Uploads, RemoveMaterial(k, u) PROVE Held'
  <2> DEFINE free == Unused({u}, materials', {})
  <2>1. /\ u \in MaterialsOf(k) /\ materials' \subseteq materials
        /\ UNCHANGED <<chatVars, turnVars, shared>>
    BY <1>5 DEF RemoveMaterial
  <2>2. PICK us \in {free, {}} : \E removed : Dropped(us, removed)
    BY <1>5 DEF RemoveMaterial
  <2>3. {u} \in SUBSET Materials
    BY <2>1 DEF MaterialsOf, Materials
  <2>4. \A x \in free : /\ x \in Stored /\ \A y \in Courses : <<y, x>> \notin materials'
                        /\ Spared(x, {})
    BY <2>3, UnusedAlone
  <2>5. \A d \in Live' : /\ d \in Live \ {} /\ images'[d] = images[d]
                         /\ docs'[d] = docs[d] /\ figures'[d] = figures[d]
    BY <2>1 DEF Live
  <2> HIDE DEF free
  <2>6. us \in SUBSET Stored /\ \A x \in us : Spared(x, {}) /\ \A y \in Courses : <<y, x>> \notin materials'
    BY <2>4
  <2> QED
    BY <2>1, <2>2, <2>5, <2>6, DeletionsSpare
<1> QED
  BY <1>3, <1>4, <1>5

LEMMA RowsStay ==
  ASSUME Types, Tidy, [Next]_vars, NEW u \in Stored,
         ~ \/ \E c \in Chats : DeleteChat(c)
           \/ \E k \in Courses : DeleteCourse(k)
           \/ \E k \in Courses, x \in Uploads : RemoveMaterial(k, x)
  PROVE  rows'[u] = rows[u] /\ u \in Stored'
<1>0. rows \in [Uploads -> Kinds \cup {"new", "gone"}] /\ u \in Uploads /\ rows[u] \in Kinds
  BY DEF Types, DiskTypes, Stored
<1>1. CASE UNCHANGED <<diskVars, drawnIn, faultVars>>
  BY <1>0, <1>1 DEF Stored
<1>2. ASSUME NEW x \in Uploads,
             UploadImage(x) \/ UploadDocument(x) \/ Extracted(x) \/ Rejected(x) \/ Draw(x)
      PROVE  rows'[u] = rows[u] /\ u \in Stored'
  BY <1>0, <1>2 DEF Tidy, UploadImage, UploadDocument, Extracted, Rejected, Draw, Saved,
                    SavedDocument, Inserted, Stored, Kinds
<1>3. CASE Restart
  BY <1>0, <1>3 DEF Tidy, Restart, Stored, Kinds
<1> QED
  BY <1>1, <1>2, <1>3, DiskStays

LEMMA HeldNext ==
  Types /\ Types' /\ Tidy /\ Sorted /\ Apart /\ Placed /\ Held /\ [Next]_vars => Held'
<1> SUFFICES ASSUME Types, Types', Tidy, Sorted, Apart, Placed, Held, [Next]_vars,
                    ~ \/ \E c \in Chats : DeleteChat(c)
                      \/ \E k \in Courses : DeleteCourse(k)
                      \/ \E k \in Courses, u \in Uploads : RemoveMaterial(k, u)
             PROVE  Held'
  BY HeldAfterDeletion
<1>0. ChatTypes /\ TurnTypes /\ DiskTypes /\ TurnTypes'
  BY DEF Types
<1>a. \A u \in Stored : rows'[u] = rows[u] /\ u \in Stored'
  BY RowsStay
<1>1. \A k \in Courses, u \in Uploads : <<k, u>> \in materials' => rows'[u] = "document"
  <2>1. ASSUME NEW k \in Courses, NEW u \in Uploads, rows[u] = "document" PROVE rows'[u] = "document"
    BY <1>a, <2>1 DEF Stored, Kinds
  <2>2. CASE UNCHANGED materials
    BY <2>1, <2>2 DEF Held
  <2>3. ASSUME NEW k \in Courses, NEW u \in Uploads, AddMaterial(k, u)
        PROVE  \A x \in Courses, y \in Uploads : <<x, y>> \in materials' => rows'[y] = "document"
    BY <2>1, <2>3 DEF AddMaterial, Held
  <2> QED
    BY <2>2, <2>3, CoursesStay DEF CreateCourse
<1>2. turn' # None /\ turn'.chat # None => turn'.drawn \subseteq Stored'
  <2>1. CASE turn' \in {turn, None}
    BY <1>a, <2>1 DEF Held
  <2>2. ASSUME NEW c \in Chats, StartTurn(c) PROVE turn'.drawn \subseteq Stored'
    BY <2>2 DEF StartTurn
  <2>3. ASSUME NEW u \in Uploads, Draw(u), turn' # turn
        PROVE  turn'.chat # None => turn'.drawn \subseteq Stored'
    <3>1. turn # None /\ turn' = [turn EXCEPT !.drawn = turn.drawn \cup {u}] /\ Saved(u, TRUE)
      BY <2>3 DEF Draw
    <3>2. turn'.chat = turn.chat /\ turn'.drawn = turn.drawn \cup {u}
      BY <1>0, <3>1 DEF TurnTypes
    <3>3. u \in Stored'
      BY <1>0, <3>1 DEF Saved, Inserted, DiskTypes, Stored, Kinds
    <3> QED
      BY <1>a, <3>1, <3>2, <3>3 DEF Held
  <2>4. ASSUME NEW p \in Problems, NEW kind, AddProblem(p, kind)
        PROVE  turn # None /\ turn'.chat = turn.chat /\ turn'.drawn = turn.drawn
    BY <1>0, <2>4 DEF AddProblem, TurnTypes
  <2>5. \/ turn' \in {turn, None}
        \/ \E c \in Chats : StartTurn(c)
        \/ \E u \in Uploads : Draw(u)
        \/ \E p \in Problems, kind \in {"graded", "short"} : AddProblem(p, kind)
    BY TurnStays DEF BeginSearch, EndSearch, Reply, NoReply, Restart
  <2>6. CASE \E p \in Problems, kind \in {"graded", "short"} : AddProblem(p, kind)
    BY <1>a, <2>4, <2>6 DEF Held
  <2> QED
    BY <2>1, <2>2, <2>3, <2>5, <2>6
<1>3. \A c \in Live' : /\ images'[c] \cup figures'[c] \subseteq Stored'
                       /\ docs'[c] \subseteq Stored' \cup shared'
  <2> SUFFICES ASSUME NEW c \in Live'
               PROVE  /\ images'[c] \cup figures'[c] \subseteq Stored'
                      /\ docs'[c] \subseteq Stored' \cup shared'
    OBVIOUS
  <2>0. c \in Chats
    BY DEF Live
  <2>1. chats[c] # "gone" => /\ images[c] \cup figures[c] \subseteq Stored
                             /\ docs[c] \subseteq Stored \cup shared
    BY <2>0 DEF Held, Apart, Live, UsedIn
  <2>2. chats[c] # "gone"
    BY <2>0, ChatsKeepPlace DEF Live
  <2>3. ASSUME NEW photo, photo \subseteq Stored, NEW ds,
               images'[c] \subseteq images[c] \cup photo, docs'[c] \subseteq docs[c] \cup ds,
               ds \ Stored \subseteq shared', shared \subseteq shared', figures' = figures
        PROVE  /\ images'[c] \cup figures'[c] \subseteq Stored'
               /\ docs'[c] \subseteq Stored' \cup shared'
    BY <1>a, <2>1, <2>2, <2>3
  <2>4. CASE UNCHANGED <<chatVars, shared>>
    BY <1>a, <2>1, <2>2, <2>4
  <2>5. ASSUME NEW photo \in Photos, NEW ds \in Documents, NEW x \in Chats,
               NEW where \in {"plain"} \cup Courses, Send(x, where, photo, ds)
        PROVE  /\ images'[c] \cup figures'[c] \subseteq Stored'
               /\ docs'[c] \subseteq Stored' \cup shared'
    <3>1. photo \subseteq Stored
      BY DEF Photos
    <3>2. /\ images'[c] \subseteq images[c] \cup photo /\ docs'[c] \subseteq docs[c] \cup ds
          /\ ds \ Stored \subseteq shared' /\ shared \subseteq shared' /\ figures' = figures
      BY <1>0, <2>0, <2>5 DEF Send, Message, ChatTypes
    <3> QED
      BY <2>3, <3>1, <3>2
  <2>6. ASSUME NEW x \in Chats, EndSearch(x)
        PROVE  /\ images'[c] \cup figures'[c] \subseteq Stored'
               /\ docs'[c] \subseteq Stored' \cup shared'
    <3>1. CASE UNCHANGED <<images, docs, shared>>
      <4>1. figures' = figures
        BY <2>6 DEF EndSearch
      <4> QED
        BY <1>a, <2>1, <2>2, <3>1, <4>1
    <3>2. CASE search.photo \subseteq Stored /\ Message(x, search.photo, search.docs)
      <4>1. /\ images'[c] \subseteq images[c] \cup search.photo
            /\ docs'[c] \subseteq docs[c] \cup search.docs
            /\ search.docs \ Stored \subseteq shared' /\ shared \subseteq shared' /\ figures' = figures
        BY <1>0, <2>0, <2>6, <3>2 DEF EndSearch, Message, ChatTypes
      <4> QED
        BY <2>3, <3>2, <4>1
    <3> QED
      BY <2>6, <3>1, <3>2 DEF EndSearch
  <2>7. CASE Reply
    <3>1. /\ figures'[c] = figures[c] \/ figures'[c] \subseteq figures[c] \cup Stored
          /\ UNCHANGED <<images, docs, shared>>
      BY <1>0, <2>0, <2>7 DEF Reply, ChatTypes, Held
    <3> QED
      BY <1>a, <2>1, <2>2, <3>1
  <2> QED
    BY <2>4, <2>5, <2>6, <2>7, ChatsStay
<1> QED
  BY <1>1, <1>2, <1>3 DEF Held

\* All that the library knows of itself.
Kept == Types /\ Tidy /\ Sorted /\ Apart /\ Placed /\ Held

LEMMA KeptAlways == Spec => []Kept
<1>1. Init => Kept
  BY InitTypes, InitTidy, InitSorted, InitApart, InitHeld DEF Kept
<1>2. Kept /\ [Next]_vars => Kept'
  <2> SUFFICES ASSUME Kept, [Next]_vars PROVE Kept'
    OBVIOUS
  <2>1. Types'
    BY DiskTyped, ChatsTyped, CoursesTyped, TurnTyped, SetsTyped DEF Kept, Types
  <2> QED
    BY <2>1, TidyNext, SortedNext, ApartNext, PlacedNext, HeldNext DEF Kept
<1> QED
  BY <1>1, <1>2, PTL DEF Spec

\* Deleting chats, courses and materials takes nothing along that a course or another
\* chat still uses, but for a document two chats were given.
THEOREM InUseIsKept == Spec => []NothingInUseIsDeleted
<1>1. Kept => NothingInUseIsDeleted
  BY HeldIsEnough DEF Kept
<1> QED
  BY <1>1, KeptAlways, PTL

-----------------------------------------------------------------------------
(* Practice *)

\* The turn's problems are its chat's, and a key leaves the server for a problem that
\* is there.
Adding ==
  turn # None /\ turn.chat # None =>
    /\ \A p \in turn.added : problems[p].chat = turn.chat
    /\ {problems[p].n : p \in turn.added} = 1..Cardinality(turn.added)

Cards ==
  /\ \A p \in Problems : IsProblem(p) => chats[problems[p].chat] \in Courses
  /\ \A c \in Chats : \A p \in cards[c] : problems[p].chat = c

Keys == \A p \in seen : IsProblem(p) /\ (problems[p].kind = "graded" => Shown(attempts[p]))

Practised == Adding /\ Cards /\ Keys

LEMMA PractisedIsEnough == Practised => PracticeIsSound
  BY DEF Practised, Adding, Cards, Keys, PracticeIsSound, ProblemsHaveChats, KeyStaysHidden

LEMMA InitPractised == Init => Practised
  BY DEF Init, Practised, Adding, Cards, Keys, IsProblem, NoProblem

\* Problems go with their chats, and a turn that adds some is cut loose.
LEMMA ForgetKeepsPractice ==
  ASSUME Types, Practised, NEW cs, Forget(cs), turn' = Loose(cs)
  PROVE  Practised'
<1>0. ChatTypes /\ TurnTypes /\ SetTypes
  BY DEF Types
<1>1. \A p \in Problems :
        /\ p \in In(cs) => problems'[p].chat = "gone"
        /\ p \notin In(cs) => problems'[p] = problems[p] /\ attempts'[p] = attempts[p]
  BY DEF Forget, DeletedProblem, NoProblem
<1>2. \A p \in Problems : p \in In(cs) <=> problems[p].chat \in cs
  BY DEF In
<1>3. Adding'
  <2> SUFFICES ASSUME turn' # None, turn'.chat # None
               PROVE  /\ \A p \in turn'.added : problems'[p].chat = turn'.chat
                      /\ {problems'[p].n : p \in turn'.added} = 1..Cardinality(turn'.added)
    BY DEF Adding
  <2>1. turn # None /\ turn' = turn /\ turn.chat \notin cs /\ turn.added \subseteq Problems
    BY <1>0 DEF Loose, TurnTypes
  <2>2. \A p \in turn.added : problems'[p] = problems[p]
    BY <1>1, <1>2, <2>1 DEF Practised, Adding
  <2>3. {problems'[p].n : p \in turn.added} = {problems[p].n : p \in turn.added}
    BY <2>2
  <2> QED
    BY <2>1, <2>2, <2>3 DEF Practised, Adding
<1>4. Cards'
  <2>1. ASSUME NEW p \in Problems, IsProblem(p)' PROVE chats'[problems'[p].chat] \in Courses
    <3>1. p \notin In(cs) /\ problems'[p] = problems[p] /\ problems[p].chat \in Chats
      BY <1>1, <2>1 DEF IsProblem
    <3>2. chats'[problems[p].chat] = chats[problems[p].chat]
      BY <1>2, <3>1 DEF Forget
    <3> QED
      BY <3>1, <3>2 DEF Practised, Cards, IsProblem
  <2>2. ASSUME NEW c \in Chats, NEW p \in cards'[c] PROVE problems'[p].chat = c
    <3>1. c \notin cs /\ p \in cards[c]
      BY <2>2 DEF Forget
    <3>2. p \in Problems /\ problems[p].chat = c
      BY <1>0, <3>1 DEF ChatTypes, Practised, Cards
    <3> QED
      BY <1>1, <1>2, <3>1, <3>2
  <2> QED
    BY <2>1, <2>2 DEF Cards
<1>5. Keys'
  <2>1. seen' = seen \ In(cs) /\ seen \subseteq Problems
    BY <1>0 DEF Forget, SetTypes
  <2> QED
    BY <1>1, <2>1 DEF Practised, Keys, IsProblem, Shown
<1> QED
  BY <1>3, <1>4, <1>5 DEF Practised

\* A problem that is added is the turn's next.
LEMMA AddKeepsPractice ==
  ASSUME Types, Placed, Practised, NEW p \in Problems, NEW kind \in {"graded", "short"},
         AddProblem(p, kind)
  PROVE  Practised'
<1> DEFINE new == [chat |-> turn.chat, n |-> Cardinality(turn.added) + 1, kind |-> kind]
<1>1. /\ turn # None /\ turn.chat # None /\ turn.studies /\ problems[p] = NoProblem
      /\ problems' = [problems EXCEPT ![p] = new]
      /\ UNCHANGED <<chatVars, attempts, seen>>
  BY DEF AddProblem
<1>2. /\ turn.chat \in Chats /\ chats[turn.chat] \in Courses
      /\ turn.added \subseteq Problems /\ IsFiniteSet(turn.added)
      /\ turn'.chat = turn.chat /\ turn'.added = turn.added \cup {p}
  BY <1>1 DEF AddProblem, Placed, Types, TurnTypes
<1>3. /\ problems'[p].chat = turn.chat /\ problems'[p].n = Cardinality(turn.added) + 1
      /\ \A x \in Problems \ {p} : problems'[x] = problems[x]
  BY <1>1 DEF Types, SetTypes
<1>4. problems[p].chat = None /\ ~IsProblem(p) /\ p \notin seen
      /\ p \notin turn.added /\ \A c \in Chats : p \notin cards[c]
  BY <1>1 DEF NoProblem, IsProblem, Practised, Adding, Cards, Keys
<1>5. Adding'
  <2>1. /\ Cardinality(turn.added) \in Nat
        /\ Cardinality(turn.added \cup {p}) = Cardinality(turn.added) + 1
    BY <1>2, <1>4, FS_CardinalityType, FS_AddElement
  <2>2. {problems'[x].n : x \in turn'.added}
          = {problems[x].n : x \in turn.added} \cup {Cardinality(turn.added) + 1}
    <3>1. \A x \in turn.added : problems'[x].n = problems[x].n
      BY <1>2, <1>3, <1>4
    <3>2. problems'[p].n = Cardinality(turn.added) + 1 /\ turn'.added = turn.added \cup {p}
      BY <1>2, <1>3
    <3> QED
      BY <3>1, <3>2
  <2>3. {problems[x].n : x \in turn.added} = 1..Cardinality(turn.added)
    BY <1>1 DEF Practised, Adding
  <2>4. {problems'[x].n : x \in turn'.added} = 1..Cardinality(turn'.added)
    <3>1. \A n \in Nat : (1..n) \cup {n + 1} = 1..(n + 1)
      OBVIOUS
    <3>2. Cardinality(turn'.added) = Cardinality(turn.added) + 1
      BY <1>2, <2>1
    <3> QED
      BY <2>1, <2>2, <2>3, <3>1, <3>2
  <2>5. \A x \in turn'.added : problems'[x].chat = turn'.chat
    BY <1>1, <1>2, <1>3 DEF Practised, Adding
  <2> QED
    BY <2>4, <2>5 DEF Adding
<1>6. Cards'
  <2>1. ASSUME NEW x \in Problems, IsProblem(x)' PROVE chats'[problems'[x].chat] \in Courses
    <3>1. CASE x = p
      BY <1>1, <1>2, <1>3, <3>1
    <3>2. CASE x # p
      BY <1>1, <1>3, <2>1, <3>2 DEF Practised, Cards, IsProblem
    <3> QED
      BY <3>1, <3>2
  <2>2. \A c \in Chats : \A x \in cards'[c] : problems'[x].chat = c
    BY <1>1, <1>3, <1>4 DEF Practised, Cards, Types, ChatTypes
  <2> QED
    BY <2>1, <2>2 DEF Cards
<1>7. Keys'
  BY <1>1, <1>3, <1>4 DEF Practised, Keys, IsProblem, Shown, Types, SetTypes
<1> QED
  BY <1>5, <1>6, <1>7 DEF Practised

\* Answers, self-marking and reveals show a graded key only to who is done with it.
LEMMA TriesKeepPractice ==
  ASSUME Types, Practised, NEW p \in Problems,
         AnswerProblem(p) \/ MarkProblem(p) \/ RevealProblem(p)
  PROVE  Practised'
<1>1. UNCHANGED <<chatVars, turnVars, problems>> /\ IsProblem(p)
  BY DEF AnswerProblem, MarkProblem, RevealProblem
<1>2. Adding' /\ Cards'
  BY <1>1 DEF Practised, Adding, Cards, IsProblem
<1>3. SetTypes
  BY DEF Types
<1>4. ASSUME NEW o \in DoneWith \cup {"wrong"}, Record(p, o) PROVE Keys'
  <2>1. /\ attempts' = [attempts EXCEPT ![p] = Append(attempts[p], o)]
        /\ Len(Append(attempts[p], o)) = Len(attempts[p]) + 1 /\ Len(attempts[p]) \in Nat
        /\ \A i \in 1..Len(attempts[p]) : Append(attempts[p], o)[i] = attempts[p][i]
        /\ seen' \subseteq seen \cup {p}
        /\ p \in seen' => p \in seen \/ Shown(attempts'[p])
    BY <1>3, <1>4, RecordAdds
  <2>2. attempts'[p] = Append(attempts[p], o) /\ \A x \in Problems \ {p} : attempts'[x] = attempts[x]
    BY <1>3, <2>1 DEF SetTypes
  <2>3. Shown(attempts[p]) => Shown(attempts'[p])
    BY <2>1, <2>2 DEF Shown
  <2>4. seen \subseteq Problems
    BY <1>3 DEF SetTypes
  <2> QED
    BY <1>1, <2>1, <2>2, <2>3, <2>4 DEF Practised, Keys, IsProblem
<1>5. ASSUME problems[p].kind # "graded", seen' = seen \cup {p}, UNCHANGED attempts PROVE Keys'
  BY <1>1, <1>5 DEF Practised, Keys, IsProblem
<1>6. Keys'
  BY <1>4, <1>5 DEF AnswerProblem, MarkProblem, RevealProblem, DoneWith
<1> QED
  BY <1>2, <1>6 DEF Practised

LEMMA PractisedNext == Kept /\ Kept' /\ Practised /\ [Next]_vars => Practised'
<1> SUFFICES ASSUME Kept, Kept', Practised, [Next]_vars PROVE Practised'
  OBVIOUS
<1>0. Types /\ Placed /\ ChatTypes /\ TurnTypes /\ SetTypes
  BY DEF Kept, Types
<1>1. ASSUME NEW c \in Chats, DeleteChat(c) PROVE Practised'
  <2>1. CASE Refused(c)
    <3>1. UNCHANGED <<chatVars, setVars>> /\ turn' = Loose({c})
      BY <1>1, <2>1 DEF DeleteChat
    <3>2. turn' # None /\ turn'.chat # None => turn' = turn
      BY <1>0, <3>1 DEF Loose, TurnTypes
    <3>3. Adding'
      BY <3>1, <3>2 DEF Practised, Adding
    <3>4. Cards' /\ Keys'
      BY <3>1 DEF Practised, Cards, Keys, IsProblem
    <3> QED
      BY <3>3, <3>4 DEF Practised
  <2>2. CASE ~Refused(c)
    BY <1>0, <1>1, <2>2, ForgetKeepsPractice DEF DeleteChat
  <2> QED
    BY <2>1, <2>2
<1>2. ASSUME NEW k \in Courses, DeleteCourse(k) PROVE Practised'
  <2>1. PICK cs : Forget(cs) /\ turn' = Loose(cs)
    BY <1>2 DEF DeleteCourse
  <2> QED
    BY <1>0, <2>1, ForgetKeepsPractice
<1>3. ASSUME UNCHANGED setVars, ~(\E c \in Chats : DeleteChat(c)), ~(\E k \in Courses : DeleteCourse(k)),
             ~(\E p \in Problems, kind \in {"graded", "short"} : AddProblem(p, kind))
      PROVE  Practised'
  <2>1. Keys'
    BY <1>3 DEF Practised, Keys, IsProblem
  <2>2. \A c \in Chats : chats[c] \in Courses => chats'[c] = chats[c]
    <3>1. ASSUME NEW x \in Chats, NEW where \in {"plain"} \cup Courses, NEW photo, NEW ds,
                 Send(x, where, photo, ds)
          PROVE  \A c \in Chats : chats[c] \in Courses => chats'[c] = chats[c]
      BY <1>0, <3>1 DEF Send, ChatTypes
    <3>2. ASSUME NEW x \in Chats, EndSearch(x)
          PROVE  \A c \in Chats : chats[c] \in Courses => chats'[c] = chats[c]
      BY <1>0, <3>2 DEF EndSearch, ChatTypes
    <3> QED
      BY <1>3, <3>1, <3>2, ChatsStay DEF Reply
  <2>3. \A c \in Chats : \A p \in cards'[c] : problems[p].chat = c
    <3>1. CASE cards' = cards
      BY <3>1 DEF Practised, Cards
    <3>2. CASE Reply
      BY <1>0, <3>2 DEF Reply, ChatTypes, Practised, Adding, Cards
    <3> QED
      BY <1>3, <3>1, <3>2, ChatsStay DEF Send, EndSearch
  <2>4. Cards'
    BY <1>3, <2>2, <2>3 DEF Practised, Cards, IsProblem
  <2>5. Adding'
    <3>1. CASE turn' \in {turn, None}
      BY <1>3, <3>1 DEF Practised, Adding
    <3>2. ASSUME NEW c \in Chats, StartTurn(c) PROVE Adding'
      <4>1. turn'.added = {} /\ 1..Cardinality({}) = {}
        BY <3>2, FS_EmptySet DEF StartTurn
      <4> QED
        BY <4>1 DEF Adding
    <3>3. ASSUME NEW u \in Uploads, Draw(u), turn' # turn PROVE Adding'
      <4>1. turn # None /\ turn'.chat = turn.chat /\ turn'.added = turn.added
        BY <1>0, <3>3 DEF Draw, TurnTypes
      <4> QED
        BY <1>3, <4>1 DEF Practised, Adding
    <3> QED
      BY <1>3, <3>1, <3>2, <3>3, TurnStays DEF BeginSearch, EndSearch, Reply, NoReply, Restart
  <2> QED
    BY <2>1, <2>4, <2>5 DEF Practised
<1> QED
  BY <1>0, <1>1, <1>2, <1>3, AddKeepsPractice, TriesKeepPractice, SetsStay

\* Problems, cards and keys agree with the sessions they are of, whatever is deleted
\* while a turn adds to them.
THEOREM PracticeStaysSound == Spec => []PracticeIsSound
<1>1. Practised => PracticeIsSound
  BY PractisedIsEnough
<1> QED
  BY <1>1, KeptAlways, InitPractised, PractisedNext, PTL DEF Spec
=============================================================================
