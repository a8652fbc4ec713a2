------------------------------ MODULE Hashmap -------------------------------
(***************************************************************************)
(* The hash table of libbpf (src/lib/libbpf/src/hashmap.c and hashmap.h).  *)
(* A table has 2^bits chains of entries, or none before its first entry.   *)
(* hash_bits() takes the upper bits of the shuffled hash, so an entry's    *)
(* chain in a table of twice the size is one of two neighbours.            *)
(***************************************************************************)
EXTENDS Integers, Sequences, SequencesExt

CONSTANT Hash     \* the shuffled hash of a key, of HashBits bits

HashBits == 4
MinCapBits == 2
EEXIST == -17
NoEntry == -2
ENOMEM == -12

hash_bits(key, bits) == Hash[key] \div 2 ^ (HashBits - bits)

hashmap__init == [bits |-> 0, chains |-> <<>>, sz |-> 0]

Cap(m) == Len(m.chains)

\* The room is checked for one entry more, at three quarters.
GrowsAt(sz, cap) == cap = 0 \/ ((sz + 1) * 4) \div 3 > cap
hashmap_needs_to_grow(m) == GrowsAt(m.sz, Cap(m))

\* hashmap__for_each_entry(): chain after chain
Entries(m) == FlattenSeq(m.chains)

ChainOf(m, key) == IF Cap(m) = 0 THEN <<>> ELSE m.chains[hash_bits(key, m.bits) + 1]

\* hashmap_add_entry() puts an entry at the head of its chain.
AddEntry(m, e) ==
    LET h == hash_bits(e.key, m.bits) + 1 IN [m EXCEPT !.chains[h] = <<e>> \o m.chains[h]]

GrowInPlace(m) ==
    LET bits == IF m.bits + 1 < MinCapBits THEN MinCapBits ELSE m.bits + 1
    IN  [m EXCEPT !.bits = bits, !.chains = @ \o [i \in 1 .. 2 ^ bits - Len(@) |-> <<>>]]
\* hashmap_grow(): every entry in turn to the head of its new chain.
hashmap_grow(m) ==
    LET bits == IF m.bits + 1 < MinCapBits THEN MinCapBits ELSE m.bits + 1
        new == [bits |-> bits, chains |-> [i \in 1 .. 2 ^ bits |-> <<>>], sz |-> m.sz]
    IN  FoldLeft(AddEntry, new, Entries(m))

\* hashmap_find_entry(): the place of the first entry of the key, or 0
FindEntry(m, key) ==
    LET Same(e) == e.key = key
        chain == ChainOf(m, key)
    IN  IF \E e \in Range(chain) : Same(e) THEN SelectInSeq(chain, Same) ELSE 0

Result(m, err, old) == [map |-> m, err |-> err, old |-> old]

\* The new entry, after growing if there is no room; either may find no memory.
Added(m, e, noMemory) ==
    LET roomy == IF hashmap_needs_to_grow(m) THEN hashmap_grow(m) ELSE m
    IN  CASE noMemory = "grow" /\ hashmap_needs_to_grow(m) -> Result(m, ENOMEM, <<>>)
          [] noMemory = "entry" -> Result(roomy, ENOMEM, <<>>)
          [] OTHER -> Result([AddEntry(roomy, e) EXCEPT !.sz = @ + 1], 0, <<>>)

hashmap__insert(m, key, value, strategy, noMemory) ==
    LET i == FindEntry(m, key)
        h == hash_bits(key, m.bits) + 1
        e == [key |-> key, value |-> value]
    IN  IF strategy # "APPEND" /\ i # 0
          THEN LET old == <<m.chains[h][i].value>>
               IN  IF strategy = "ADD" THEN Result(m, EEXIST, old)
                   ELSE Result([m EXCEPT !.chains[h][i] = e], 0, old)
          ELSE IF strategy = "UPDATE" THEN Result(m, NoEntry, <<>>)
          ELSE Added(m, e, noMemory)

\* <<>> or the value found
hashmap__find(m, key) ==
    LET i == FindEntry(m, key) IN IF i = 0 THEN <<>> ELSE <<ChainOf(m, key)[i].value>>

hashmap__delete(m, key) ==
    LET i == FindEntry(m, key)
        h == hash_bits(key, m.bits) + 1
    IN  IF i = 0 THEN Result(m, NoEntry, <<>>)
        ELSE Result([m EXCEPT !.chains[h] = RemoveAt(m.chains[h], i), !.sz = @ - 1], 0,
                    <<m.chains[h][i].value>>)

=============================================================================
