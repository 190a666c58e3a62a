------------------------------ MODULE Content -------------------------------
(***************************************************************************)
(* The content of a course (content/schema.py, glossary.py, registry.py):  *)
(* what a load accepts, the indexes it builds and what may be read from    *)
(* it.                                                                     *)
(*                                                                         *)
(* A localized text is the set of languages it is given in.  Prose is the  *)
(* set of words it uses, and a term is its word in each language.          *)
(***************************************************************************)
EXTENDS Quiz

Locales == {"en", "es"}

Keyed(e) == IF e.key = Absent THEN e.id ELSE e.key
Keys(list) == [i \in DOMAIN list |-> Keyed(list[i])]
IdsOf(list) == [i \in DOMAIN list |-> list[i].id]

----------------------------------------------------------------------------
\* Views of a manifest

IterModules(manifest) == FlattenSeq([b \in DOMAIN manifest.blocks |->
                                       manifest.blocks[b].modules])
IterLessons(manifest) == FlattenSeq([m \in DOMAIN IterModules(manifest) |->
                                       IterModules(manifest)[m].lessons])
IterExercises(manifest) == FlattenSeq([l \in DOMAIN IterLessons(manifest) |->
                                         IterLessons(manifest)[l].exercises])

LessonKeys(manifest) == Range(Keys(IterLessons(manifest)))

----------------------------------------------------------------------------
\* The manifest

\* Fault: a key that was not given is not compared with those that were.
Unique_GivenKeys(manifest) ==
  LET given(list) == SelectSeq(list, LAMBDA e : e.key # Absent)
      names(of(_)) == <<manifest.id>> \o IdsOf(manifest.blocks)
                      \o of(IterModules(manifest)) \o of(IterLessons(manifest))
                      \o of(IterExercises(manifest))
      keys(list) == Keys(given(list))
  IN  IsInjective(names(IdsOf)) /\ IsInjective(names(keys))

\* Ids are unique across every level of a course, and keys among themselves.
Unique(manifest) ==
  LET names(of(_)) == <<manifest.id>> \o IdsOf(manifest.blocks)
                      \o of(IterModules(manifest)) \o of(IterLessons(manifest))
                      \o of(IterExercises(manifest))
  IN  IsInjective(names(IdsOf)) /\ IsInjective(names(Keys))

Declared(manifest) ==
  \A e \in Range(IterExercises(manifest)) : e.type \in manifest.exercise_types

Assumptions(manifest) ==
  \A m \in Range(IterModules(manifest)) : \A dep \in m.assumes :
    dep \in Ids(IterModules(manifest)) /\ dep # m.id

ValidManifest(manifest) ==
  /\ manifest.languages # << >> /\ IsInjective(manifest.languages)
  /\ manifest.exercise_types # {}
  /\ Unique(manifest) /\ Declared(manifest) /\ Assumptions(manifest)

----------------------------------------------------------------------------
\* The glossary

Excluded(term) == UNION {term.link_except[l] : l \in Locales}
SenseOrigins(term) == {s.origin : s \in term.senses}
Origins(term) == SenseOrigins(term) \cup (IF term.origin = Absent THEN {} ELSE {term.origin})

ValidTerm(term) ==
  /\ IF term.alias_of # Absent THEN term.definition = Absent /\ term.senses = {}
     ELSE term.definition # Absent \/ term.senses # {}
  /\ term.origin # Absent \/ term.senses # {}
  /\ \A l \in Locales \ term.link : l \notin term.match /\ term.link_except[l] = {}

ValidAliases(terms) ==
  \A t \in ToSet(terms) :
    t.alias_of = Absent \/ \E target \in ToSet(terms) :
                              target.id = t.alias_of /\ target.alias_of = Absent

ValidGlossary(terms, lessonKeys, taken) ==
  /\ \A t \in ToSet(terms) : ValidTerm(t)
  /\ Distinct(terms)
  /\ ValidAliases(terms)
  /\ Ids(terms) \cap taken = {}
  /\ \A t \in ToSet(terms) : Origins(t) \cup Excluded(t) \subseteq lessonKeys

----------------------------------------------------------------------------
\* Loading a course

Languages(course) == Range(course.manifest.languages)

ExerciseTypes == {"quiz", "calculation", "synthetic_chart", "fixture_chart", "pattern_chart"}

\* What parsing the files of a directory yields before anything is compared:
\* a list is finite, a language is one of the two of the platform, an exercise
\* has one of the five types, and a figure has a file of its own.
IsList(s) == s \in Seq(ToSet(s))
ParsedVariant(v) ==
  /\ IsList(v.options) /\ IsList(v.items) /\ IsList(v.pairs)
  /\ v.answer \in {TRUE, FALSE, Absent}
Parsed(course) ==
  LET m == course.manifest
  IN  /\ IsList(m.languages) /\ ToSet(m.languages) \subseteq Locales
      /\ IsList(m.blocks)
      /\ \A b \in ToSet(m.blocks) : IsList(b.modules)
      /\ \A b \in ToSet(m.blocks) : \A x \in ToSet(b.modules) : IsList(x.lessons)
      /\ \A b \in ToSet(m.blocks) : \A x \in ToSet(b.modules) :
           \A lesson \in ToSet(x.lessons) : IsList(lesson.exercises)
      /\ \A id \in DOMAIN course.configs :
           LET config == course.configs[id]
           IN  /\ config.type \in ExerciseTypes
               /\ config.type = "quiz" =>
                    IsList(config.variants)
                    /\ \A v \in ToSet(config.variants) : ParsedVariant(v)
      /\ IsList(course.glossary)
      /\ IsList(course.figures)
      /\ \A i, j \in DOMAIN course.figures :
           course.figures[i].file = course.figures[j].file => i = j

\* Ids and keys that a glossary entry may not have.
Taken(course) ==
  LET m == course.manifest
      both(list) == Range(IdsOf(list)) \cup Range(Keys(list))
  IN  {m.id} \cup Ids(m.blocks) \cup both(IterModules(m)) \cup both(IterLessons(m))
      \cup both(IterExercises(m)) \cup both(course.figures)

\* Every lesson has prose in each language of the course, and in no other.
ProseGiven(course) ==
  /\ DOMAIN course.prose = Languages(course)
  /\ \A l \in Languages(course) : \A id \in Ids(IterLessons(course.manifest)) :
       id \in DOMAIN course.prose[l] /\ course.prose[l][id] # {}

FiguresGiven(course) ==
  /\ \A f \in ToSet(course.figures) : f.id = f.file
  /\ IsInjective(Keys(course.figures))
  /\ course.figures = << >> => ~course.coupling

TermTexts(term) ==
  {s.definition : s \in term.senses}
  \cup (IF term.definition = Absent THEN {} ELSE {term.definition})

\* The texts a reader may be shown.
Texts(course) ==
  LET m == course.manifest
      items == ToSet(IterModules(m)) \cup ToSet(IterLessons(m))
  IN  {m.title} \cup {b.title : b \in ToSet(m.blocks)}
      \cup (UNION {{x.title, x.summary} : x \in items})
      \cup {course.configs[id].prompt : id \in DOMAIN course.configs}
      \cup {f.caption : f \in ToSet(course.figures)}
      \cup (UNION {TermTexts(t) : t \in ToSet(course.glossary)})

LanguagesAgree(course) ==
  /\ \A text \in Texts(course) : text = Languages(course)
  /\ \A t \in ToSet(course.glossary) : DOMAIN t.term = Languages(course)

\* A term must be used by the course, and a summary may only use the terms
\* of its own lesson.
NeverCoined(course) ==
  \A l \in Languages(course) :
    LET prose == course.prose[l]
    IN  /\ \A t \in ToSet(course.glossary) : \E id \in DOMAIN prose : t.term[l] \in prose[id]
        /\ \A lesson \in ToSet(IterLessons(course.manifest)) :
             \A t \in ToSet(course.glossary) :
               t.term[l] \in lesson.uses => t.term[l] \in prose[lesson.id]

\* An exercise without a configuration is not playable yet.
ConfigsGiven(course) ==
  \A e \in ToSet(IterExercises(course.manifest)) :
    e.id \in DOMAIN course.configs => course.configs[e.id].type = e.type

ValidCourse(course) ==
  /\ ValidManifest(course.manifest)
  /\ course.manifest.id = course.directory
  /\ ProseGiven(course)
  /\ ConfigsGiven(course)
  /\ FiguresGiven(course)
  /\ ValidGlossary(course.glossary, LessonKeys(course.manifest), Taken(course))
  /\ LanguagesAgree(course)
  /\ NeverCoined(course)

----------------------------------------------------------------------------
\* The indexes of a loaded course: of two entries with one name, the later.

Index(list, from(_), to(_)) ==
  [name \in {from(list[i]) : i \in DOMAIN list} |->
     to(list[Max({i \in DOMAIN list : from(list[i]) = name})])]
IdOf(e) == e.id

KeysById(list) == Index(list, IdOf, Keyed)
IdsByKey(list) == Index(list, Keyed, IdOf)

----------------------------------------------------------------------------
\* Reading: whether what a page needs is there in a language

CourseReads(course, l) ==
  LET m == course.manifest
  IN  /\ l \in m.title
      /\ \A b \in ToSet(m.blocks) : l \in b.title
      /\ \A x \in ToSet(IterModules(m)) :
           l \in x.title /\ l \in x.summary /\ x.assumes \subseteq Ids(IterModules(m))
      /\ \A x \in ToSet(IterLessons(m)) :
           l \in x.title /\ l \in x.summary /\ x.id \in DOMAIN course.prose[l]

\* The entry of a term: its lessons, the entry it stands for and its texts.
TermReads(course, term, l) ==
  LET lessons == IdsByKey(IterLessons(course.manifest))
      target == CHOOSE t \in ToSet(course.glossary) : t.id = term.alias_of
  IN  /\ l \in DOMAIN term.term
      /\ Origins(term) \cup term.link_except[l] \subseteq DOMAIN lessons
      /\ \A text \in TermTexts(term) : l \in text
      /\ term.alias_of # Absent => l \in DOMAIN target.term /\ TermTexts(target) # {}
=============================================================================
