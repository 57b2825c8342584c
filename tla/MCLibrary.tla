------------------------------ MODULE MCLibrary ------------------------------
(* An instance of Library for TLC: every line of at most five characters, up to *)
(* three directives, up to four tags or tables, memories of five bytes.         *)
EXTENDS Library, SequencesExt
ShortLines == BoundedSeq({"a", "b", "=", " "}, 5)
ShortNames == BoundedSeq({"a", "b"}, 3)
Directives == {<<65>>, <<37, 100>>, <<37, 115>>, <<37, 99>>, <<37, 120>>, <<37, 48, 49, 120>>,
               <<37, 48, 51, 120>>}
ThreeDirectives == {<<>>} \cup {x \o y \o z : x, y, z \in Directives}
Words == {0, 1, 16, 17, 33}
ThreeWords == [1 .. 3 -> Words]
Texts == [w \in Words |-> <<66, w>>]
UpTo3Tags == BoundedSeq({[type |-> t, size |-> s] : t \in {1, 14}, s \in {8, 9, 15}}, 3)
Asked == {TagType("CMDLINE"), TagType("FRAMEBUFFER"), TagType("ACPI_OLD")}
UpTo3Tables == BoundedSeq({"APIC", "FACP", "HPET"}, 3)
FiveBytes == [0 .. 4 -> 0 .. 2]
AllCalls == [f : {"memcpy", "memmove", "strcpy", "strncpy", "strcat", "strncmp", "reverse",
              "memset"},
             a : 0 .. 4, b : 0 .. 4, n : 0 .. 3]
=============================================================================
