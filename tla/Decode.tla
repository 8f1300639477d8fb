------------------------------- MODULE Decode -------------------------------
(***************************************************************************)
(* Reading a frame: ngfw_pcap_next (engine/pcap.c), ngfw_decode            *)
(* (engine/decode.c), the payload stage's four bytes (engine/main.c) and   *)
(* ngfw_tls_sni (engine/tls.c), as one cursor that moves towards a limit.  *)
(* Header sizes are the real ones; what the bytes say is any of the        *)
(* constants' values.  The decoder's end, ext_end and e_end lie within one *)
(* another and none is returned to, so one limit stands for the innermost. *)
(***************************************************************************)
EXTENDS Integers

CONSTANTS
    CapLens,        \* bound: lengths of the captured frames
    Lengths,        \* bound: values of the length fields
    FieldModulus,   \* 2^16
    MAX_SNAP,
    SniCap          \* sizeof sni

ASSUME DecodeAssumption ==
    /\ CapLens \subseteq Nat /\ Lengths \subseteq Nat
    /\ FieldModulus \in Nat \ {0} /\ MAX_SNAP \in Nat /\ SniCap \in Nat \ {0}

VARIABLES
    stage,      \* what the cursor stands before; "read" between frames
    caplen,
    off, lim,   \* the cursor and its limit, from the start of the frame
    loops,      \* rounds of the loop it is in, of those without a bound the parity
    peak        \* history: one past the last byte read

decodeVars == <<stage, caplen, off, lim, loops, peak>>

Left == lim - off
Least(a, b) == IF a < b THEN a ELSE b
Short == {n \in Lengths : n < 256}
Wide == {n \in Lengths : n < FieldModulus}
Nibbles == {4 * n : n \in {0, 4, 5, 15}}

DecodeInit ==
    /\ stage = "read" /\ caplen = 0 /\ off = 0 /\ lim = 0 /\ loops = 0 /\ peak = 0

\* n bytes are read, the cursor goes to o and its limit to l.
Reading(n, to, o, l) ==
    /\ peak' = IF off + n > peak THEN off + n ELSE peak
    /\ stage' = to /\ off' = o /\ lim' = l
    /\ loops' = IF to # stage THEN 0
                ELSE IF stage \in {"vlan", "v6"} THEN loops + 1 ELSE 1 - loops
    /\ UNCHANGED caplen

\* The frame is done with, n bytes after the cursor having been read.
Done(n) == Reading(n, "read", off, lim)

\* ngfw_pcap_next: a frame, or the end of the capture, a record cut short or absurd.
NextFrame ==
    /\ stage = "read"
    /\ \/ \E n \in CapLens :
              /\ n <= MAX_SNAP
              /\ stage' = "link" /\ caplen' = n /\ off' = 0 /\ lim' = n
              /\ loops' = 0 /\ peak' = 0
       \/ stage' = "end" /\ UNCHANGED <<caplen, off, lim, loops, peak>>

\* The link types: Ethernet, loopback, Linux cooked and raw, or unknown.
Link ==
    /\ stage = "link"
    /\ \/ Left < 14 /\ Done(0)
       \/ Left >= 14 /\ Reading(14, "vlan", 14, lim)
       \/ \E n \in {0, 4, 16} :
              IF Left < n THEN Done(0) ELSE Reading(0, "ip", n, lim)
       \/ Done(0)

\* An EtherType: IP, a tag of which two are peeled, or another.
Vlan ==
    /\ stage = "vlan"
    /\ \/ Reading(0, "ip", off, lim)
       \/ loops < 2 /\ Left < 4 /\ Done(0)
       \/ loops < 2 /\ Left >= 4 /\ Reading(4, "vlan", off + 4, lim)
       \/ Done(0)

\* decode_ip, version 4; a fragment that is not the first has no ports.
IPv4 ==
    /\ stage = "ip"
    /\ \/ Left < 20 /\ Done(IF Left < 1 THEN 0 ELSE 1)
       \/ \E ihl \in Nibbles :
              /\ Left >= 20
              /\ IF ihl < 20 \/ ihl > Left THEN Done(1)
                 ELSE Done(20) \/ Reading(20, "l4", off + ihl, lim)

\* decode_ip, another version.
IPv6 ==
    /\ stage = "ip"
    /\ \/ Left < 40 /\ Done(IF Left < 1 THEN 0 ELSE 1)
       \/ Left >= 40 /\ Reading(40, "v6", off + 40, lim)
       \/ Done(IF Left < 1 THEN 0 ELSE 1)

\* Its extension headers, a fragment header having one size.
Extension ==
    /\ stage = "v6"
    /\ \/ Reading(0, "l4", off, lim)
       \/ loops < 8 /\ Left < 8 /\ Done(0)
       \/ loops < 8 /\ Left >= 8 /\ Reading(1, "v6", off + 8, lim)
       \/ \E n \in Short :
              /\ loops < 8 /\ Left >= 8
              /\ IF 8 * (n + 1) > Left THEN Done(2) ELSE Reading(2, "v6", off + 8 * (n + 1), lim)

\* decode_l4
Tcp ==
    /\ stage = "l4"
    /\ \/ Left < 20 /\ Done(0)
       \/ \E hlen \in Nibbles :
              /\ Left >= 20
              /\ IF hlen < 20 \/ hlen > Left THEN Done(13)
                 ELSE Reading(13, "tcp", off + hlen, lim)

UdpOrOther ==
    /\ stage = "l4"
    /\ \/ Left < 8 /\ Done(0)
       \/ Left >= 8 /\ Reading(4, "udp", off + 8, lim)
       \/ Done(0)

\* The payload matcher looks at four bytes, and TCP goes on to ngfw_tls_sni.
Payload ==
    LET n == IF Left >= 4 THEN 4 ELSE 0 IN
    \/ stage = "udp" /\ Done(n)
    \/ stage = "tcp" /\ Left > 0 /\ Reading(n, "record", off, lim)
    \/ stage = "tcp" /\ Left <= 0 /\ Done(n)

\* Mutant: a record longer than what was captured.
Untruncated(n) == off + 5 + n

Truncated(n) == off + 5 + Least(n, Left - 5)

\* The TLS record header; another type or version ends the search.
Record ==
    /\ stage = "record"
    /\ \/ Left < 43 /\ Done(0)
       \/ Left >= 43 /\ Done(2)
       \/ \E n \in Wide : Left >= 43 /\ Reading(5, "hello", off + 5, Truncated(n))

\* The handshake header, the client's version and its random.
Hello ==
    /\ stage = "hello"
    /\ \/ Left < 4 /\ Done(0)
       \/ Left >= 4 /\ Done(1)
       \/ \E n \in Lengths :
              /\ Left >= 4
              /\ IF Least(n, Left - 4) < 34 THEN Done(4)
                 ELSE Reading(4, "session", off + 38, off + 4 + Least(n, Left - 4))

\* A length of w bytes and as many bytes after it, skipped.
Skip(from, w, lengths, to) ==
    /\ stage = from
    /\ \/ Left < w /\ Done(0)
       \/ \E n \in lengths :
              /\ Left >= w
              /\ IF Left - w < n THEN Done(w) ELSE Reading(w, to, off + w + n, lim)

Vectors ==
    \/ Skip("session", 1, Short, "ciphers")
    \/ Skip("ciphers", 2, Wide, "compression")
    \/ Skip("compression", 1, Short, "extensions")

Extensions ==
    /\ stage = "extensions"
    /\ \/ Left < 2 /\ Done(0)
       \/ \E n \in Wide :
              /\ Left >= 2
              /\ Reading(2, "extension", off + 2, off + 2 + Least(n, (Left - 2) % FieldModulus))

\* Mutant: a skipped extension is not passed.
Stuck(n) == off

Past(n) == off + 4 + n

\* One extension: server_name, or another to be skipped.
TlsExtension ==
    /\ stage = "extension"
    /\ \/ Left < 4 /\ Done(0)
       \/ \E n \in Wide :
              /\ Left >= 4
              /\ IF n > (Left - 4) % FieldModulus THEN Done(4)
                 ELSE \/ Reading(4, "list", off + 4, off + 4 + n)
                      \/ Reading(4, "extension", Past(n), lim)

NameList ==
    /\ stage = "list"
    /\ \/ Left < 2 /\ Done(0)
       \/ \E n \in Wide :
              /\ Left >= 2
              /\ IF n > (Left - 2) % FieldModulus THEN Done(2)
                 ELSE Reading(2, "name", off + 2, off + 2 + n)

\* An entry of the list: the host name, copied up to the caller's buffer, or another.
ServerName ==
    /\ stage = "name"
    /\ \/ Left < 3 /\ Done(0)
       \/ \E n \in Wide :
              /\ Left >= 3
              /\ IF n > (Left - 3) % FieldModulus THEN Done(3)
                 ELSE Done(3 + Least(n, SniCap - 1)) \/ Reading(3, "name", off + 3 + n, lim)

Decoding ==
    \/ Link \/ Vlan \/ IPv4 \/ IPv6 \/ Extension \/ Tcp \/ UdpOrOther \/ Payload
    \/ Record \/ Hello \/ Vectors \/ Extensions \/ TlsExtension \/ NameList \/ ServerName

DecodeTypeOK ==
    /\ stage \in {"read", "end", "link", "vlan", "ip", "v6", "l4", "tcp", "udp",
                  "record", "hello", "session", "ciphers", "compression", "extensions",
                  "extension", "list", "name"}
    /\ caplen \in Nat /\ off \in Nat /\ lim \in Nat /\ peak \in Nat /\ loops \in Nat
=============================================================================
