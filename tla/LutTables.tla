------------------------------- MODULE LutTables -------------------------------
(***************************************************************************)
(* The lookup tables of the S_SPLUT circuits (ABYconstants.h), row by row, *)
(* in words of 16 bits; the zeros that fill up a row are left out.         *)
(***************************************************************************)
EXTENDS Integers, Sequences

WordBits == 16

\* Bit n, from 0, of a row.
TableBit(words, n) ==
    LET at == 1 + n \div WordBits
    IN  IF at > Len(words) THEN 0 ELSE (words[at] \div 2^(n % WordBits)) % 2

\* What a row gives for the inputs whose bits are the number address: one
\* output after the other.
TableRow(words, outs, address) == [o \in 1 .. outs |-> TableBit(words, address * outs + o - 1)]

\* m_vLUT_GT_IN
GtInTable == <<
    <<\h86, \h0, \h0, \h0>>,
    <<\h5586, \h8600, \h0, \h0>>,
    <<\h5586, \h8600, \h5555, \h5555, \h0, \h0, \h5586, \h8600>>,
    <<\h5586, \h8600, \h5555, \h5555, \h0, \h0, \h5586, \h8600, \h5555, \h5555, \h5555, \h5555,
      \h5555, \h5555, \h5555, \h5555, \h0, \h0, \h0, \h0, \h0, \h0, \h0, \h0, \h5586, \h8600,
      \h5555, \h5555, \h0, \h0, \h5586, \h8600>>>>

\* m_vLUT_GT_INTERNAL
GtInternalTable == <<
    <<\h5500, \hb1e4, \h0, \h0>>,
    <<\h0, \h0, \h5555, \h5555, \h5500, \hb1e4, \h55, \he4b1>>,
    <<\h0, \h0, \h0, \h0, \h0, \h0, \h0, \h0, \h5555, \h5555, \h5555, \h5555, \h5555, \h5555,
      \h5555, \h5555, \h0, \h0, \h5555, \h5555, \h5500, \hb1e4, \h55, \he4b1, \h5555, \h5555,
      \h0, \h0, \h55, \he4b1, \h5500, \hb1e4>>>>

\* m_vLUT_ADD_IN
AddInTable == <<
    <<\h8, \h0, \h0, \h0>>,
    <<\h200, \h90a9, \hb24a, \h0>>,
    <<\h1000, \h5220, \h5220, \h5444, \h1000, \h5220, \h5220, \h5444, \h1000, \h5220, \h5220,
      \h5444, \h9888, \hdaa8, \hdaa8, \hdccc>>,
    <<\h0, \h8004, \h1420, \h2080, \h414, \h1441, \h0, \h8004, \h1420, \h2080, \h414, \h1441,
      \h0, \h8004, \h1420, \h2080, \h414, \h1441, \h8208, \h8824, \h34a2, \ha288, \hc34, \h34c3,
      \h0, \h8004, \h1420, \h2080, \h414, \h1441, \h0, \h8004, \h9524, \h2480, \h2495, \h9649,
      \h0, \h8004, \h9524, \h2480, \h2495, \h9649, \h8a28, \ha8a6, \hb6aa, \haaa8, \h2cb6,
      \hb6cb, \h0, \h8004, \h1420, \h2080, \h414, \h1441, \h0, \h8004, \h9524, \h2480, \h2495,
      \h9649, \h0, \h8004, \h9524, \h2480, \h2495, \h9649, \h8a28, \ha8a6, \hb6aa, \haaa8,
      \h2cb6, \hb6cb, \h820, \ha086, \h9628, \h28a0, \h2496, \h9649, \h820, \ha086, \h9628,
      \h28a0, \h2496, \h9649, \h820, \ha086, \h9628, \h28a0, \h2496, \h9649, \h8a28, \ha8a6,
      \hb6aa, \haaa8, \h2cb6, \hb6cb>>>>

\* m_vLUT_ADD_INTERNAL
AddInternalTable == <<
    <<\he400, \heeaa, \h0, \h0>>,
    <<\h0, \h3210, \h2222, \h3232, \h0, \h3210, \h2222, \h3232, \h0, \h3210, \h2222, \h3232, \h0,
      \h3210, \h2222, \h3232, \h0, \h3210, \h2222, \h3232, \h0, \hfa50, \haaaa, \hfafa, \h8888,
      \hba98, \haaaa, \hbaba, \h8888, \hfad8, \haaaa, \hfafa, \h8888, \hba98, \haaaa, \hbaba,
      \h8888, \hba98, \haaaa, \hbaba, \h8888, \hba98, \haaaa, \hbaba, \h8888, \hba98, \haaaa,
      \hbaba, \h8888, \hba98, \haaaa, \hbaba, \h8888, \hfad8, \haaaa, \hfafa, \h8888, \hba98,
      \haaaa, \hbaba, \h8888, \hfad8, \haaaa, \hfafa>>>>

\* m_vLUT_ADD_CRIT_IN
AddCritInTable == <<
    <<\h8, \h0, \h0, \h0>>,
    <<\h1000, \h3000, \h3000, \h3222>>,
    <<\h200, \h60, \h6926, \h200, \he0, \hfb6e, \h200, \he0, \hfb6e, \h4b24, \h24f2, \hfb6f>>,
    <<\h1000, \h3000, \h3000, \h3222, \h1000, \h7000, \h7000, \h7666, \h1000, \h7000, \h7000,
      \h7666, \h5444, \h7444, \h7444, \h7666, \h1000, \h3000, \h3000, \h3222, \h1000, \hf000,
      \hf000, \hfeee, \h1000, \hf000, \hf000, \hfeee, \hdccc, \hfccc, \hfccc, \hfeee, \h1000,
      \h3000, \h3000, \h3222, \h1000, \hf000, \hf000, \hfeee, \h1000, \hf000, \hf000, \hfeee,
      \hdccc, \hfccc, \hfccc, \hfeee, \h9888, \hb888, \hb888, \hbaaa, \h9888, \hf888, \hf888,
      \hfeee, \h9888, \hf888, \hf888, \hfeee, \hdccc, \hfccc, \hfccc, \hfeee>>>>

\* m_vLUT_ADD_CRIT
AddCritTable == <<
    <<\hf8, \h0, \h0, \h0>>,
    <<\h5540, \hffc0, \hffea, \hffea>>,
    <<\h9200, \h24, \h6db6, \hb692, \h926d, \h6db6, \h9200, \h24, \hfffe, \hffb6, \hb6ff, \hffff,
      \hdb24, \h24b6, \hffff, \hffb6, \hb6ff, \hffff, \hdb24, \h24b6, \hffff, \hffb6, \hb6ff,
      \hffff>>>>

\* m_vLUT_ADD_INV
AddInvTable == <<
    <<\hf8, \h0, \h0, \h0>>,
    <<\h5540, \hddc8, \hffea, \hffea>>,
    <<\h9200, \h1024, \h6596, \hb692, \h926d, \h6db6, \h9200, \h3024, \he79e, \hffb6, \hb6ff,
      \hffff, \hdb24, \h34b6, \hf7df, \hffb6, \hb6ff, \hffff, \hdb24, \h34b6, \hf7df, \hffb6,
      \hb6ff, \hffff>>>>

\* m_vLUT_ADD_N_OUTS
AddNOuts == <<1, 3, 4, 6>>
===============================================================================
