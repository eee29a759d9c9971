----------------------------- MODULE MCHinPipe -----------------------------
(***************************************************************************)
(* The pipes that hin9's callers create, for TLC: files sent with CONDENSE *)
(* (whole, a range, truncated while being sent), uploads to a temporary    *)
(* file, CGI output, cache fills, proxied bodies and FastCGI output.       *)
(***************************************************************************)
EXTENDS HinPipe

CONSTANT MaxLen   \* bound on the body bytes a source holds

File == [inFlags : {{"COUNT", "OFFSETS"}}, outFlags : {{}}, condense : {TRUE},
         header : {1}, prefed : {0}, left : 0 .. MaxLen, inStart : {0, 2},
         srcLen : {MaxLen - 1, MaxLen}]

Upload == [inFlags : {{"COUNT"}}, outFlags : {{"OFFSETS"}}, condense : {FALSE},
           header : {0}, prefed : 0 .. 2, left : 1 .. MaxLen, inStart : {0},
           srcLen : {MaxLen}]

Proxied == [inFlags : {{"COUNT"}}, outFlags : {{}}, condense : {FALSE},
            header : {1}, prefed : {0}, left : 0 .. MaxLen, inStart : {0},
            srcLen : {MaxLen}]

Cgi == [inFlags : {{}}, outFlags : {{}}, condense : {FALSE},
        header : {1}, prefed : 0 .. 1, left : {0}, inStart : {0},
        srcLen : 1 .. MaxLen]

CacheFill == [inFlags : {{}}, outFlags : {{"OFFSETS"}}, condense : {FALSE},
              header : {0}, prefed : 0 .. 1, left : {0}, inStart : {0},
              srcLen : 1 .. MaxLen]

Fcgi == [inFlags : {{"INACTIVE"}}, outFlags : {{}}, condense : {FALSE},
         header : {1}, prefed : 0 .. 1, left : {0}, inStart : {0},
         srcLen : 1 .. MaxLen]

(* Long enough to reach the back-pressure limit. *)
LongFill == [inFlags : {{}}, outFlags : {{"OFFSETS"}}, condense : {FALSE},
             header : {0}, prefed : {0}, left : {0}, inStart : {0},
             srcLen : {3 * ReadSz + 1}]

MCSetups == LongFill \cup File \cup Upload \cup Proxied \cup Cgi \cup CacheFill \cup Fcgi
=============================================================================
