------------------------------- MODULE Params -------------------------------
(***************************************************************************)
(* The kernel command line (kernel/params.c): get_cmdline_param_val and    *)
(* has_cmdline_param with the memcmp and strstr they scan with, over       *)
(* zero-terminated strings.                                                *)
(*                                                                         *)
(* A string is a sequence of characters without its zero; indices are those *)
(* of the sequence, so that the zero is at Len + 1.                        *)
(***************************************************************************)
EXTENDS Naturals, Sequences, FiniteSetsExt

CONSTANTS
  Lines,   \* command lines
  Names,   \* names of parameters
  Zero     \* the character '\0'

Space == " "
Equals == "="

\* A string without these characters.
Without(s, chars) == s \in Seq({s[i] : i \in DOMAIN s} \ chars)

\* What Library assumes of them.
ParamsAssumption ==
  /\ Zero \notin {Space, Equals}
  /\ \A s \in Lines : Without(s, {Zero})
  /\ \A n \in Names : Without(n, {Zero, Space, Equals})

VARIABLES
  fn,        \* the function called: "get" or "has"
  cmdline, name,
  p,         \* the index it has scanned to
  result,    \* what it returned
  farthest   \* history: the last index of the command line that was read

vars == <<fn, cmdline, name, p, result, farthest>>

None == [kind |-> "none"]            \* not returned yet
Null == [kind |-> "null"]
NoMemory == [kind |-> "nomem"]       \* NULL, for want of a block
Value(v) == [kind |-> "value", v |-> v]
Flag(b) == [kind |-> "flag", b |-> b]

Init ==
  /\ fn \in {"get", "has"}
  /\ cmdline \in Lines /\ name \in Names
  /\ p = 1 /\ result = None /\ farthest = 1

At(s, i) == IF i <= Len(s) THEN s[i] ELSE Zero
NameLen == Len(name)

\* Mutant: all the bytes are compared, whether or not an earlier one differs.
ComparedAll(i) == i + NameLen - 1

\* memcmp(name, p, namelen) = 0, and the last byte of p it reads: the first that
\* differs, if any.
Matches(i) == \A k \in 1 .. NameLen : At(cmdline, i + k - 1) = name[k]
Compared(i) ==
  IF Matches(i) THEN i + NameLen - 1
  ELSE i - 1 + Min({k \in 1 .. NameLen : At(cmdline, i + k - 1) # name[k]})

Read(i) == farthest' = Max({farthest, i})

Return(r) == result' = r /\ UNCHANGED <<fn, cmdline, name, p>>

Running(f) == fn = f /\ result = None

\* A name or a command line that is empty, or the end of the command line.
End ==
  /\ result = None
  /\ NameLen = 0 \/ At(cmdline, p) = Zero
  /\ Return(IF fn = "get" THEN Null ELSE Flag(FALSE))
  /\ UNCHANGED farthest

Scanning(f) == Running(f) /\ NameLen > 0 /\ At(cmdline, p) # Zero

-----------------------------------------------------------------------------
\* get_cmdline_param_val

NoMatchHere ==
  /\ Scanning("get") /\ ~Matches(p)
  /\ p' = p + 1
  /\ Read(Max({p + 1, Compared(p)}))
  /\ UNCHANGED <<fn, cmdline, name, result>>

\* Mutant: '=' is the only end of a value that is looked for.
ValueEndAtEquals(i) == Min({k \in i .. Len(cmdline) + 1 : At(cmdline, k) \in {Equals, Zero}})

\* The first index from i on that is not of the value.
ValueEnd(i) == Min({k \in i .. Len(cmdline) + 1 : At(cmdline, k) \in {Space, Zero}})

\* param=val or param=
MatchWithValue ==
  /\ Scanning("get") /\ Matches(p) /\ At(cmdline, p + NameLen) = Equals
  /\ LET v == p + NameLen + 1
     IN  /\ Return(Value(SubSeq(cmdline, v, ValueEnd(v) - 1))) \/ Return(NoMemory)
         /\ Read(ValueEnd(v))

\* The name, and no '=' after it.
MatchAlone ==
  /\ Scanning("get") /\ Matches(p) /\ At(cmdline, p + NameLen) # Equals
  /\ Return(Null)
  /\ Read(p + NameLen)

-----------------------------------------------------------------------------
\* has_cmdline_param

\* The occurrences of the name from i on; strstr returns the first.
Occurrences(i) == {k \in i .. Len(cmdline) : Matches(k)}
StrStr(i) == Min(Occurrences(i))

\* What strstr reads when it gets as far as index last.
Searched(i, last) == Max({Compared(k) : k \in i .. last} \cup {last})

NotFound ==
  /\ Scanning("has") /\ Occurrences(p) = {}
  /\ Return(Flag(FALSE))
  /\ Read(Max({Searched(p, Len(cmdline)), Len(cmdline) + 1}))

Ends == {Zero, Space, Equals}

FoundParam ==
  /\ Scanning("has") /\ Occurrences(p) # {}
  /\ At(cmdline, StrStr(p) + NameLen) \in Ends
  /\ Return(Flag(TRUE))
  /\ Read(Max({Searched(p, StrStr(p)), StrStr(p) + NameLen}))

\* Where the search goes on after an occurrence.
After(i) == i + NameLen

FoundInWord ==
  /\ Scanning("has") /\ Occurrences(p) # {}
  /\ At(cmdline, StrStr(p) + NameLen) \notin Ends
  /\ p' = After(StrStr(p))
  /\ Read(Max({Searched(p, StrStr(p)), After(StrStr(p))}))
  /\ UNCHANGED <<fn, cmdline, name, result>>

Next ==
  \/ End
  \/ NoMatchHere \/ MatchWithValue \/ MatchAlone
  \/ NotFound \/ FoundParam \/ FoundInWord

Spec == Init /\ [][Next]_vars

-----------------------------------------------------------------------------

\* No read is past the zero of the command line, though every comparison asks
\* for as many bytes as the name has.
ReadsWithinLine == p <= Len(cmdline) + 1 /\ farthest <= Len(cmdline) + 1

\* The words of a command line, by their first index.
WordStarts == {i \in 1 .. Len(cmdline) : cmdline[i] # Space /\ (i = 1 \/ cmdline[i - 1] = Space)}
Word(i) ==
  LET end == Max({j \in i .. Len(cmdline) : \A k \in i .. j : cmdline[k] # Space})
  IN  SubSeq(cmdline, i, end)
KeyIs(i) == Matches(i) /\ At(cmdline, i + NameLen) \in {Zero, Space, Equals}

\* The line mentions the name only as the whole key of a word.
Plain == \A i \in Occurrences(1) : i \in WordStarts /\ KeyIs(i)

\* In a line of that kind the functions find what a reader of the line would: the
\* value of the first word of that key, NULL when it is not given one, and whether
\* there is such a word.
FindsParameter ==
  LET keys == {i \in WordStarts : KeyIs(i)}
      first == Min(keys)
  IN  NameLen > 0 /\ Plain =>
        CASE result.kind = "flag" -> result.b = (keys # {})
          [] result.kind = "null" -> keys = {} \/ Word(first) = name
          [] result.kind = "value" ->
               keys # {} /\ Word(first) = name \o <<Equals>> \o result.v
          [] OTHER -> TRUE

\* The inductive invariant of LibraryProofs: get_cmdline_param_val has passed no match,
\* has_cmdline_param only occurrences that are not whole keys.
ScanInv ==
  /\ Without(cmdline, {Zero}) /\ Without(name, {Zero, Space, Equals})
  /\ p \in 1 .. Len(cmdline) + 1 /\ farthest \in 1 .. Len(cmdline) + 1
  /\ fn = "get" => \A k \in 1 .. p - 1 : ~Matches(k)
  /\ fn = "has" /\ p > 1 => ~Plain
  /\ fn \notin {"get", "has"} => result # None

=============================================================================
