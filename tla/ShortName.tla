----------------------------- MODULE ShortName -----------------------------
(***************************************************************************)
(* What becomes of a name on its way into a directory entry and back:      *)
(* isValidLfn, isValidAlias, entryGetAlias and the first part of addEntry  *)
(* in src/src/fat/directory.c, with the look-ups that decide whether the   *)
(* name is there already.                                                  *)
(*                                                                         *)
(* A name is a sequence of characters; upper and lower case are one.  The  *)
(* directory is the root, where "." is a path of its own and no name, and  *)
(* its entries take one place each; how long names are spread over slots,  *)
(* and the short names they get besides, are in Directory.                 *)
(***************************************************************************)
EXTENDS Integers, Sequences, FiniteSetsExt

CONSTANTS
    BaseLength,     \* characters of a short name before its dot: 8
    ExtLength,      \* and after it: 3
    Forbidden,      \* characters no name may have
    OnlyLong,       \* characters that a long name may have, and a short one not
    Names,          \* names the calls are given
    Places          \* entries the directory has room for

VARIABLE dir    \* [place -> entry, or NoEntry]

DOT == "."
SPACE == " "

ASSUME NamesAssumption ==
    /\ BaseLength \in Nat \ {0, 1} /\ ExtLength \in Nat \ {0} /\ Places \in Nat \ {0}
    /\ Names \subseteq Seq(STRING)
    /\ {DOT, SPACE} \cap (Forbidden \cup OnlyLong) = {}
    /\ \A n \in Names : n # <<>> /\ n # <<DOT>>

Has(n, S) == \E i \in DOMAIN n : n[i] \in S
Dots(n) == {i \in DOMAIN n : n[i] = DOT}

IsValidLfn(n) == ~Has(n, Forbidden)

\* With a dot, the length is taken from the first character to the last before
\* it, which is one less than there are.
IsValidAlias(n) ==
    LET base == Min(Dots(n)) - 1
    IN  /\ Len(n) <= BaseLength + 1 + ExtLength /\ ~Has(n, Forbidden \cup OnlyLong)
        /\ Cardinality(Dots(n)) <= 1
        /\ IF Dots(n) = {} THEN Len(n) \in 1 .. BaseLength
           ELSE base - 1 \in 1 .. BaseLength /\ Len(n) - base - 1 \in 1 .. ExtLength

------------------------------------------------------------------------
(* Spaces at the ends.                                                     *)

\* The first character stays.
WithoutTrailing(n) ==
    LET kept == {i \in DOMAIN n : n[i] # SPACE \/ i = 1} IN SubSeq(n, 1, Max(kept))

\* The rest is moved to the front without its end mark: the last characters are
\* there a second time.
WithoutLeading(n) ==
    LET kept == {i \in DOMAIN n : n[i] # SPACE}
        gap == Min(kept \cup {Len(n) + 1}) - 1
    IN  [i \in DOMAIN n |-> IF i + gap <= Len(n) THEN n[i + gap] ELSE n[i]]

Trimmed(n) == WithoutLeading(WithoutTrailing(n))

------------------------------------------------------------------------
(* Entries: a field for the base, one for the extension, filled up with    *)
(* spaces, and a long name, <<>> when there is none.                       *)

Field(s, length) == [i \in 1 .. length |-> IF i <= Len(s) THEN s[i] ELSE SPACE]

NoEntry == [given |-> <<>>, isDir |-> FALSE, long |-> <<>>, base |-> <<>>, ext |-> <<>>]
Unnamed(n, isDir) == [NoEntry EXCEPT !.given = n, !.isDir = isDir]

\* Mutant: the extension is copied from where the base was cut off.
ExtensionMut(n, cut) == SubSeq(n, cut + 1, Len(n))

\* The extension is copied only if the dot comes right after what was copied.
Extension(n, cut) ==
    IF cut < Len(n) /\ n[cut + 1] = DOT THEN SubSeq(n, cut + 2, Len(n)) ELSE <<>>

ShortFields(n, e) ==
    LET cut == Min({i - 1 : i \in Dots(n)} \cup {Len(n), BaseLength})
    IN  [e EXCEPT !.base = Field(SubSeq(n, 1, cut), BaseLength),
                  !.ext = Field(Extension(n, cut), ExtLength)]

DotFields(n, e) ==
    [e EXCEPT !.base = Field(n, BaseLength), !.ext = Field(<<>>, ExtLength)]

\* The entry e with the name n.
Named(n, e) ==
    IF n \in {<<DOT>>, <<DOT, DOT>>} THEN DotFields(n, e)
    ELSE IF IsValidAlias(n) THEN ShortFields(n, e) ELSE [e EXCEPT !.long = n]

\* Fields are read up to their first space.
UpToSpace(f) == SubSeq(f, 1, Min({i \in DOMAIN f : f[i] = SPACE} \cup {Len(f) + 1}) - 1)

EntryGetAlias(e) ==
    IF e.base[1] = DOT
    THEN IF e.base[2] = DOT THEN <<DOT, DOT>> ELSE <<DOT>>
    ELSE UpToSpace(e.base)
         \o (IF e.ext[1] = SPACE THEN <<>> ELSE <<DOT>> \o UpToSpace(e.ext))

Filename(e) == IF e.long # <<>> THEN e.long ELSE EntryGetAlias(e)

\* An entry that begins with a space is passed over.
Listed(e) == e # NoEntry /\ (e.long # <<>> \/ e.base[1] # SPACE)

------------------------------------------------------------------------
(* Calls.                                                                  *)

None == 0

\* The place of the first entry of that name.
Lookup(d, n) ==
    LET hits == {i \in DOMAIN d : Listed(d[i]) /\ Filename(d[i]) = n}
    IN  IF hits = {} THEN None ELSE Min(hits)

\* Mutant: the name is looked for as it was given.
AlreadyThereMut(d, n, t) == Lookup(d, n) # None

AlreadyThere(d, n, t) == Lookup(d, t) # None

AddEntry(d, n, isDir) ==
    LET gaps == {i \in DOMAIN d : d[i] = NoEntry}
        t == Trimmed(n)
    IN  IF ~IsValidLfn(n) \/ AlreadyThere(d, n, t) \/ gaps = {} THEN d
        ELSE [d EXCEPT ![Min(gaps)] = Named(t, Unnamed(n, isDir))]

Deleted(d, n) == IF Lookup(d, n) = None THEN d ELSE [d EXCEPT ![Lookup(d, n)] = NoEntry]

NamesInit == dir = [i \in 1 .. Places |-> NoEntry]

\* A file of that name is deleted first; a directory is not.  The path is looked
\* up as it was given.
FileCreate(n) ==
    /\ Lookup(dir, n) # None => ~dir[Lookup(dir, n)].isDir
    /\ dir' = AddEntry(Deleted(dir, n), n, FALSE)

FileMakeDir(n) == Lookup(dir, n) = None /\ dir' = AddEntry(dir, n, TRUE)

FileDelete(n) == dir' = Deleted(dir, n)

NamesNext == \E n \in Names : FileCreate(n) \/ FileMakeDir(n) \/ FileDelete(n)

NamesSpec == NamesInit /\ [][NamesNext]_dir

------------------------------------------------------------------------
(* Properties.                                                             *)

\* Names that come back as they went in: no space at either end, and, if the name
\* is stored as a short one, none inside and not a character too much.
Plain(n) ==
    /\ n[1] # SPACE /\ n[Len(n)] # SPACE
    /\ IsValidAlias(n) => ~Has(n, {SPACE}) /\ \A i \in Dots(n) : i <= BaseLength + 1

\* As long as all names are plain every entry is found under the name it was
\* given, which is what a second create, a read and a delete rely on.
PlainNamesAreFound ==
    (\A i \in DOMAIN dir : dir[i] # NoEntry => Plain(dir[i].given)) =>
        \A i \in DOMAIN dir : dir[i] # NoEntry => Lookup(dir, dir[i].given) = i

\* Spaces are taken off before the name is looked for among the others: whatever
\* names were given, no two long names of a directory are the same.
LongNamesAreDistinct ==
    \A i, j \in DOMAIN dir : i # j /\ dir[i].long # <<>> => dir[i].long # dir[j].long

\* What the comments in isValidAlias say: "Make sure the filename portion is 1-8
\* characters long" (directory.c:151) of a name that has an extension.
AliasFits ==
    \A i \in DOMAIN dir :
        LET n == dir[i].given
        IN  (IsValidAlias(n) /\ Dots(n) # {}) => Min(Dots(n)) - 1 \in 1 .. BaseLength
=============================================================================
