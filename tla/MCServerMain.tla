---------------------------- MODULE MCServerMain ----------------------------
(***************************************************************************)
(* lite-server started with up to five options, of which the last two vary *)
(* over the boundaries of every range, and a proxy that sends up to two    *)
(* strings of bytes.                                                       *)
(***************************************************************************)
EXTENDS ServerCommandLine

Word(w) == [word |-> w, digits |-> <<NotDigit>>, plain |-> 4, short |-> 0, control |-> 0]

Number(digits) == [word |-> "number", digits |-> digits, plain |-> Len(digits),
                   short |-> 0, control |-> 0]

Token(plain, short, control) ==
  [word |-> "token", digits |-> <<NotDigit>>, plain |-> plain, short |-> short,
   control |-> control]

MCProxyPort  == 8080
MCProxyToken == Token(10, 0, 0)

\* Numbers around every bound, one with leading zeros, and 2^32 + 80.
Written ==
  [option \in Numbers |->
     CASE option = "--connect-port" ->
            {<<0>>, <<6,5,5,3,5>>, <<6,5,5,3,6>>, <<0,0,8,0>>,
             <<4,2,9,4,9,6,7,3,7,6>>, <<8, NotDigit>>, <<>>}
       [] option = "--max-frame-bytes" ->
            {<<1,0,2,3>>, <<1,0,2,4>>, <<6,7,1,0,8,8,6,4>>, <<6,7,1,0,8,8,6,5>>}
       [] option = "--reconnect-initial-ms" ->
            {<<6,0,0,0,0>>, <<6,0,0,0,1>>}
       [] option = "--reconnect-max-ms" ->
            {<<2,4,9>>, <<3,0,0,0,0,0>>, <<3,0,0,0,0,1>>}]

PairsOf(option) == {<<Word(option), Number(digits)>> : digits \in Written[option]}

Tokens ==
  {<<Word("--auth-token"), token>> :
     token \in {Nothing, Token(512, 0, 0), Token(513, 0, 0), Token(1000, 0, 0),
                Token(0, 512, 0), Token(0, 0, 512), Token(346, 0, 166)}}

Pairs ==
  UNION {PairsOf(option) : option \in Numbers} \cup Tokens
    \cup {<<Word("--config"), Nothing>>, <<Word("--config"), Word("--help")>>,
          <<Word("--connect-host"), Word("localhost")>>,
          <<Word("--verbose"), Nothing>>, <<Word("--help")>>, <<Word("--config")>>}

Base(port) ==
  <<Word("--config"), Word("path"), Word("--connect-port"), Number(port),
    Word("--auth-token"), MCProxyToken>>

\* Nobody listens on port 1.
Elsewhere == Base(<<1>>)
ToProxy   == Base(<<8,0,8,0>>)

MCCommandLines ==
  {SubSeq(Elsewhere, 1, n) : n \in 0..4} \cup {SubSeq(Elsewhere, 3, 6)}
    \cup {Elsewhere \o next \o last : next, last \in Pairs \cup {<<>>}}
    \cup {ToProxy \o next \o last : next \in PairsOf("--max-frame-bytes"),
                                    last \in Tokens \cup {<<>>}}

\* A frame, and strings that are none.
Framing(payload) == [frame |-> TRUE, bytes |-> EncodeFrame(payload)]
Unframed(size)   == [frame |-> FALSE, bytes |-> Magic \o EncodeSize(size) \o <<9>>]

Junk(max) ==
  {Unframed(0), Unframed(max), Unframed(max + 1),
   [frame |-> FALSE, bytes |-> <<76, 84, 83, 50, 0, 0, 0, 1, 9>>]}

\* A session has a second string only within the least limit.
MCScripts(max) ==
  LET next == IF max > Least("--max-frame-bytes") THEN {}
              ELSE Junk(max) \cup {Framing(<<7, 8>>)}
  IN  {<<Framing(HelloAck)>>, <<Framing(<<2>>)>>}
        \cup {<<junk>> : junk \in Junk(max)}
        \cup {<<Framing(HelloAck), string>> : string \in next}
=============================================================================
