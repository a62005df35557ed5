------------------------------- MODULE MCFinders -------------------------------
EXTENDS Finders

Names == {"sep", "fixed", "flatbuffers", "msgpack", "csv"}

\* Every name, with its parameter, without, and with one that is refused.
MCSpecs ==
  {[name |-> n, arg |-> a, separator |-> {}] :
     n \in Names, a \in {{}, {<<>>}, {<<50>>}, {<<48>>}, {<<43, 51>>}}}
    \cup {[name |-> n, arg |-> {}, separator |-> {<<10, 10, 65>>}] : n \in Names}

\* What matters to each: the bytes of the separators; lengths; and every type byte
\* of MessagePack but those that only differ from others in what they count, with
\* small numbers and a few values behind, and as much after these as the longest
\* scalar takes.
Rep(n, bytes) == [i \in 1 .. n |-> bytes]
Heads == {0, 127, 255} \cup 128 .. 130 \cup 144 .. 147 \cup 160 .. 162 \cup 192 .. 224
MCAlphabet ==
  [name \in {"sep", "fixed", "flatbuffers", "msgpack"} |->
     CASE name = "sep" -> Rep(7, {10, 50, 65})
       [] name = "fixed" -> Rep(7, {65})
       [] name = "flatbuffers" -> Rep(7, {0, 1, 2})
       [] name = "msgpack" ->
            <<Heads, {0, 1, 129, 146, 161, 193}, {0, 1, 161}, {0, 1, 212}, {0, 1}, {0, 1}>>
              \o Rep(12, {0})]
================================================================================
