------------------------------- MODULE MCGtpIe -------------------------------
(* IE values for checking the GTP-C IE walk: two TV IEs of different body
   lengths, the IMSI, and two TLV IEs with length fields 0, 2 and 6. The IMSI has
   15 digits; a 14-digit IMSI is added for imsi_overflow. *)
EXTENDS GtpIe

\* A 15-digit IMSI as sent: seven full octets [lo, hi], then the last
\* digit with the filler F in the high nibble.
Imsi15 == [i \in 1 .. 8 |-> IF i = 8 THEN [lo |-> 9, hi |-> 15]
                                     ELSE [lo |-> 4, hi |-> 2]]

\* A 14-digit IMSI as sent: seven full octets, then the octet 0xFF, both
\* nibbles filler (3GPP TS 29.060 7.7.2: the IE is always eight octets).
Imsi14 == [i \in 1 .. 8 |-> IF i = 8 THEN [lo |-> 15, hi |-> 15]
                                     ELSE [lo |-> 4, hi |-> 2]]

Ie(name, len) == [name |-> name, len |-> len, enc |-> <<>>]

KnownIes ==
    {Ie("RECOVERY", 0), [name |-> "IMSI", len |-> 0, enc |-> Imsi15],
     Ie("TEI_CONTROL_PLANE", 0)}
    \cup {Ie("END_USER_ADDRESS", l) : l \in {2, 6}}
    \cup {Ie("PRIVATE_EXTENSION", 0)}

\* The same, with a 14-digit IMSI too.
WithShortImsi == KnownIes \cup {[name |-> "IMSI", len |-> 0, enc |-> Imsi14]}

\* The same, with a type the table does not know.
WithUnknownIes == KnownIes \cup {Ie(UNKNOWN_TV, 0)}
=============================================================================
