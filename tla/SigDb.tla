------------------------------- MODULE SigDb -------------------------------
(***************************************************************************)
(* The signature database file: the layout that serialize (tools/sigc.py)  *)
(* writes, and the checks of ngfw_sigdb_open (sigdb/sigdb_load.c) on the   *)
(* header of a file it maps.  Offsets and counts are header fields, sizes  *)
(* are size_t, both modulo SizeModulus here.                               *)
(***************************************************************************)
EXTENDS Integers, Sequences

CONSTANTS
    SizeModulus,
    Stray       \* bound: the values a damaged field is tried with

ASSUME SigDbAssumption ==
    SizeModulus \in Nat \ {0} /\ Stray \subseteq 0 .. SizeModulus - 1

HeaderSize == 56
ElemSize == [app |-> 12, domain |-> 12, cidr |-> 28, payload |-> 16, pool |-> 1]
Sections == DOMAIN ElemSize

Span(off, count) == [off |-> off, count |-> count]

\* serialize: the sections one after the other, the pool last.
Layout(count) ==
    LET dom == HeaderSize + 12 * count.app
        cidr == dom + 12 * count.domain
        pay == cidr + 28 * count.cidr
        pool == pay + 16 * count.payload
    IN  [size |-> pool + count.pool, magic |-> TRUE, version |-> TRUE, terminated |-> TRUE,
         section |-> [app |-> Span(HeaderSize, count.app), domain |-> Span(dom, count.domain),
                      cidr |-> Span(cidr, count.cidr), payload |-> Span(pay, count.payload),
                      pool |-> Span(pool, count.pool)]]

\* Files that differ in one place: cut short, or with one other header field.
Damaged(file) ==
    {[file EXCEPT !.size = n] : n \in {0, HeaderSize - 1, HeaderSize, file.size - 1}}
    \union {[file EXCEPT !.magic = FALSE], [file EXCEPT !.version = FALSE],
            [file EXCEPT !.terminated = FALSE]}
    \union {[file EXCEPT !.section[s].off = n] : s \in Sections, n \in Stray}
    \union {[file EXCEPT !.section[s].count = n] : s \in Sections, n \in Stray}

span_ok(size, off, count, elem) ==
    /\ off <= size
    /\ count <= (size - off) \div elem
    /\ (off + ((count * elem) % SizeModulus)) % SizeModulus <= size

\* ngfw_sigdb_open succeeds.
Accepted(file) ==
    /\ file.size >= HeaderSize
    /\ file.magic /\ file.version
    /\ \A s \in Sections :
           span_ok(file.size, file.section[s].off, file.section[s].count, ElemSize[s])
    /\ file.section.pool.count > 0 /\ file.terminated

\* The records and strings of a section are in the file.
Inside(file, s) == file.section[s].off + file.section[s].count * ElemSize[s] <= file.size
=============================================================================
