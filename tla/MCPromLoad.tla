----------------------------- MODULE MCPromLoad -----------------------------
(* Small PROMs for TLC. *)
EXTENDS PromLoad

MagicBytes == <<4, 6>>

\* Four characters of one byte and one of two.
WideChar == <<6, 7>>
SomeChars == {<<1>>, <<2>>, <<5>>, <<7>>, WideChar}

Letters(S) == [letters |-> S, number |-> 0]
Numeric(n) == [letters |-> {}, number |-> n]

Version(n) == [field |-> "version", value |-> n]
NameLine == [field |-> "name", name |-> <<<<5>>>>]

\* Short and long bases and lengths, and every permission, as letters and as
\* a number.
DmaLines == [field : {"dma"}, name : {<<<<7>>>>}, perm : {Letters({"r"})},
             base : {3, 21}, length : {7, 9}]
            \cup [field : {"dma"}, name : {<<>>}, base : {5}, length : {6},
                  perm : {Letters({"w"}), Letters({"r", "w"}), Numeric(4)}]

SomeLines == {NameLine, [field |-> "name", name |-> <<>>]}
         \cup DmaLines
         \cup [field : {"mask", "align"}, value : {3, 6}]

\* Lines that no image can be read back from.
WideLines == {[field |-> "name", name |-> <<WideChar>>],
              [field |-> "dma", name |-> <<WideChar, WideChar>>,
               perm |-> Numeric(7), base |-> 5, length |-> 6]}

\* Configuration files of one to four lines behind the version, without one,
\* of another version, or with one in between.
SmallConfigs ==
    {<<Version(1)>> \o c : c \in [1 .. 1 -> SomeLines] \cup [1 .. 2 -> SomeLines]}
    \cup {<<Version(1), NameLine, l, m>> : l \in SomeLines, m \in SomeLines}
    \cup {<<Version(1), NameLine, l, m, n>> :
              l \in DmaLines, m \in SomeLines \ DmaLines, n \in SomeLines \ DmaLines}
    \cup {<<Version(n), NameLine, l>> : n \in {0, 2}, l \in SomeLines}
    \cup {<<NameLine, l>> : l \in SomeLines \cup {Version(1)}}
    \cup {<<Version(1), l, Version(n)>> : n \in {0, 3}, l \in SomeLines \cup WideLines}
    \cup {<<Version(1), l, m>> : l \in WideLines, m \in SomeLines}
    \cup {<<>>, <<Version(1)>>}

Default == <<Version(1), NameLine,
             [field |-> "dma", name |-> <<<<1>>>>, perm |-> Letters({"r"}),
              base |-> 0, length |-> 5],
             [field |-> "dma", name |-> <<<<2>>>>, perm |-> Letters({"r"}),
              base |-> 5, length |-> 2]>>

\* Any five or six bytes out of a few, taken as entries.
AnyBytes == [1 .. 5 -> {0, 1, 2, 5}] \cup [1 .. 6 -> {0, 1, 5}]
=============================================================================
