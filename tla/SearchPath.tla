------------------------------ MODULE SearchPath ------------------------------
(***************************************************************************)
(* util::SearchPath::FilenameTemplate and its lists: how a search path is  *)
(* split into templates or directories, edited, and printed again, with    *)
(* the default delimiter and placeholder.  A string is a sequence of Chars.*)
(***************************************************************************)
EXTENDS Naturals, SequencesExt, FiniteSetsExt

CONSTANTS
    Chars,              \* the characters strings are made of
    Separators,         \* those that end a directory
    DEFAULT_DELIMITER,
    DEFAULT_PLACEHOLDER,
    Throws,             \* in place of the result of a call that throws
    MaxInput,           \* bound: the length of the path that is split
    MaxEdit,            \* bound: the length of a new prefix or suffix
    MaxTemplates        \* bound: how far push_back lengthens a list

ASSUME CharAssumption ==
    /\ "/" \in Separators
    /\ {"/", DEFAULT_DELIMITER, DEFAULT_PLACEHOLDER} \subseteq Chars
    /\ DEFAULT_DELIMITER # DEFAULT_PLACEHOLDER
    /\ {DEFAULT_DELIMITER, DEFAULT_PLACEHOLDER} \cap Separators = {}
    /\ Throws \notin Seq(Chars)

ASSUME EditAssumption == MaxInput \in Nat /\ MaxEdit \in Nat

VARIABLES
    list,  \* a List of templates
    style  \* which function split it, "edited" when it was changed since, or
           \* "none" before

pathVars == <<list, style>>

-----------------------------------------------------------------------------
(* FilenameTemplate                                                        *)

Template(pre, suff, has) == [prefix |-> pre, suffix |-> suff, hasPlaceholder |-> has]

endsInPathSeparator(s) == s # << >> /\ Last(s) \in Separators

\* Mutant of createFromDirectory: every element gets its separator.
createFromDirectoryAppend(elt) == Template(elt \o <<"/">>, << >>, TRUE)

createFromDirectory(elt) ==
    Template(IF endsInPathSeparator(elt) THEN elt ELSE elt \o <<"/">>, << >>, TRUE)

Find(s, c) == {i \in DOMAIN s : s[i] = c}

\* The first placeholder splits an element; without one it is a fixed path.
createFromTemplate(elt) ==
    LET found == Find(elt, DEFAULT_PLACEHOLDER)
    IN  IF found = {} THEN Template(elt, << >>, FALSE)
        ELSE Template(SubSeq(elt, 1, Min(found) - 1),
                      SubSeq(elt, Min(found) + 1, Len(elt)), TRUE)

isDirectory(t) == /\ t.hasPlaceholder
                  /\ t.suffix = << >>
                  /\ endsInPathSeparator(t.prefix)

getStringWithSubstitution(t) ==
    IF t.hasPlaceholder THEN t.prefix \o <<DEFAULT_PLACEHOLDER>> \o t.suffix
                        ELSE t.prefix

-----------------------------------------------------------------------------
(* Lists                                                                   *)

\* The tokens of s between delimiters, the empty ones dropped: a character after
\* a delimiter begins a token, another one continues the last.
Tokens(s) ==
    LET scanned[i \in 0 .. Len(s)] ==
            IF i = 0 THEN << >>
            ELSE LET tokens == scanned[i - 1]
                 IN  IF s[i] = DEFAULT_DELIMITER THEN tokens
                     ELSE IF i = 1 \/ s[i - 1] = DEFAULT_DELIMITER
                     THEN Append(tokens, <<s[i]>>)
                     ELSE Append(Front(tokens), Append(Last(tokens), s[i]))
    IN  scanned[Len(s)]

Joined(strings) ==
    FlattenSeq([i \in DOMAIN strings |->
                  IF i < Len(strings) THEN Append(strings[i], DEFAULT_DELIMITER)
                                      ELSE strings[i]])

Mapped(Op(_), s) == [i \in DOMAIN s |-> Op(s[i])]

splitListOfFilenameTemplates(s) == Mapped(createFromTemplate, Tokens(s))
splitListOfDirectories(s)       == Mapped(createFromDirectory, Tokens(s))

listOfFilenameTemplatesToString(l) == Joined(Mapped(getStringWithSubstitution, l))

\* getDirectory throws for an element that is no directory.
listOfDirectoriesToString(l) ==
    LET directory(t) == t.prefix
    IN  IF \A i \in DOMAIN l : isDirectory(l[i]) THEN Joined(Mapped(directory, l)) ELSE Throws

-----------------------------------------------------------------------------
(* A client splits a path, and adds to the list and edits what is in it.   *)

Strings(n) == UNION {[1 .. k -> Chars] : k \in 0 .. n}

PathInit == list = << >> /\ style = "none"

SplitTemplates(s) == /\ style = "none"
                     /\ list' = splitListOfFilenameTemplates(s)
                     /\ style' = "templates"

SplitDirectories(s) == /\ style = "none"
                       /\ list' = splitListOfDirectories(s)
                       /\ style' = "directories"

\* push_back of a template made of a prefix and a suffix; with neither it is
\* the default one.
PushBack == /\ Len(list) < MaxTemplates
            /\ \E pre, suff \in Strings(MaxEdit) :
                  list' = Append(list, Template(pre, suff, TRUE))
            /\ style' = "edited"

setPrefix(i) == /\ \E s \in Strings(MaxEdit) : list' = [list EXCEPT ![i].prefix = s]
                /\ style' = "edited"

\* Mutant of setSuffix: it does not look for a placeholder.
setSuffixAlways(i) ==
    /\ \E s \in Strings(MaxEdit) : list' = [list EXCEPT ![i].suffix = s]
    /\ style' = "edited"

\* It throws, and changes nothing, without a placeholder.
setSuffix(i) ==
    /\ list[i].hasPlaceholder
    /\ \E s \in Strings(MaxEdit) : list' = [list EXCEPT ![i].suffix = s]
    /\ style' = "edited"

PathNext == \/ \E s \in Strings(MaxInput) : SplitTemplates(s) \/ SplitDirectories(s)
            \/ PushBack
            \/ \E i \in DOMAIN list : setPrefix(i) \/ setSuffix(i)

PathSpec == PathInit /\ [][PathNext]_pathVars

-----------------------------------------------------------------------------
(* Properties.                                                             *)

\* An element that the syntax of a path can express.
Expressible(t) == /\ DEFAULT_DELIMITER \notin Range(t.prefix \o t.suffix)
                  /\ DEFAULT_PLACEHOLDER \notin Range(t.prefix)
                  /\ t.hasPlaceholder \/ t.prefix # << >>

\* A list that was split from any path, with whatever empty elements and
\* placeholders, is printed as a path that splits into the same list; so is
\* an edited one whose elements can be expressed at all, which a fixed path
\* with a suffix (the comment of hasPlaceholder rules it out) would not be.
TemplatesReadBack ==
    style = "templates" \/ (\A i \in DOMAIN list : Expressible(list[i]))
    => splitListOfFilenameTemplates(listOfFilenameTemplatesToString(list)) = list

\* The same for directories: a list split from any path consists of
\* directories only, so printing it does not throw, and it reads back, as an
\* edited one does that has become or remained one of directories.
DirectoriesReadBack ==
    \/ style = "directories"
    \/ \A i \in DOMAIN list : /\ isDirectory(list[i])
                              /\ DEFAULT_DELIMITER \notin Range(list[i].prefix)
    => /\ listOfDirectoriesToString(list) # Throws
       /\ splitListOfDirectories(listOfDirectoriesToString(list)) = list

=============================================================================
