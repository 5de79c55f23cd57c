------------------------------ MODULE Alphabet ------------------------------
(***************************************************************************)
(* st_alphabet: labels and their numbers, as a table of labels and a       *)
(* dictionary of their signatures (st_alphabet.c).  A label is a value of  *)
(* Labels; what the program does with its bytes are three maps: the        *)
(* signature get_sign makes of it, what fits into the table, and what      *)
(* reads back from a line of a text file.                                  *)
(*                                                                         *)
(* The dictionary is the set of its nodes: st_dict is a module of its own, *)
(* and no two nodes of one dictionary are ever equal to one label.         *)
(***************************************************************************)
EXTENDS Integers, Sequences, FiniteSets, SequencesExt

CONSTANTS
  Labels,
  get_sign,     \* label -> signature: the bytes of a short label, the hash of a long one
  NoSign,       \* the signature of the empty label, two zeros
  Kept,         \* label -> its first MAX_SYM_LEN - 1 bytes
  ReadBack,     \* label -> the label of the line "label<TAB>number", NoLabel when the
                \* line has not two fields
  NoLabel,
  MaxNums,      \* the capacities alphabets are created with
  TextFiles     \* text files of another program: sequences of lines [label, id]

\* A label that does not fit and its beginning have different hashes.
ASSUME AlphabetAssumption ==
  /\ NoLabel \notin Labels
  /\ Kept \in [Labels -> Labels] /\ ReadBack \in [Labels -> Labels \cup {NoLabel}]
  /\ \A l \in Labels : Kept[l] # l => get_sign[l] # get_sign[Kept[l]]
  /\ TextFiles \subseteq Seq([label : Labels \cup {NoLabel}, id : Int])

VARIABLES
  alphabet,     \* the alphabet the program holds, NoAlphabet without one
  saved,        \* a file an alphabet was written to
  given         \* the labels that got the numbers 0, 1, ... by the calls so far

alphabetVars == <<alphabet, saved, given>>

NoAlphabet == [max |-> 0]
NoFile == [kind |-> "none"]

\* The label of number i.
At(table, i) == table[i + 1]
Numbers(table) == 0 .. Len(table) - 1

\* index_dict_node_eq reads the label of a node from the table, st_dict_node_equal is
\* content with the signature.
Equal(a, node, label) ==
  /\ node.sign = get_sign[label]
  /\ a.eq = "label" => node.at \in Numbers(a.table) /\ At(a.table, node.at) = label

\* Mutant: index_dict_node_eq is content with the signature, too.
EqualSigns(a, node, label) == node.sign = get_sign[label]

index_dict_node_eq(a, node, label) == Equal(a, node, label)

st_alphabet_get_index(a, label) ==
  LET nodes == {n \in a.dict : index_dict_node_eq(a, n, label)}
  IN IF get_sign[label] = NoSign \/ nodes = {} THEN -1 ELSE (CHOOSE n \in nodes : TRUE).at

\* An index equal to the number of labels passes the check of the program: what the
\* table holds there, or what lies behind it, is nobody's label.
st_alphabet_get_label(a, i) == IF i \in Numbers(a.table) THEN At(a.table, i) ELSE NoLabel

Node(label, i) == [sign |-> get_sign[label], at |-> i]
Nodes(table) == {Node(At(table, i), i) : i \in Numbers(table)}

\* The dictionary a load builds compares signatures only and refuses the second of two
\* equal ones, and the signature of the empty label.
Indexable(table) ==
  /\ \A i, j \in Numbers(table) : i # j => get_sign[At(table, i)] # get_sign[At(table, j)]
  /\ \A i \in Numbers(table) : get_sign[At(table, i)] # NoSign

st_alphabet_generate_index_dict(table) == Indexable(table)

\* A loaded alphabet has no room for more labels than it was loaded with.  An empty one,
\* which only the binary form can hold, gets a dictionary of one bucket (highest_bit_mask
\* of 0 is 0); st_malloc is taken to give an address for its table of no bytes.
Loaded(table) == [max |-> Len(table), table |-> table, dict |-> Nodes(table), eq |-> "sign"]

\* What st_alphabet_load_txt makes of the lines: every number once, each below the
\* number of lines.
Table(lines) == [i \in DOMAIN lines |->
                   Kept[lines[CHOOSE k \in DOMAIN lines : lines[k].id = i - 1].label]]
WellFormed(lines) ==
  /\ \A k \in DOMAIN lines : lines[k].label # NoLabel /\ lines[k].id \in 0 .. Len(lines) - 1
  /\ \A k, m \in DOMAIN lines : lines[k].id = lines[m].id => k = m
st_alphabet_load_txt(lines) == lines # << >> /\ WellFormed(lines) /\ st_alphabet_generate_index_dict(Table(lines))

-----------------------------------------------------------------------------
AlphabetInit == alphabet = NoAlphabet /\ saved = NoFile /\ given = << >>

Held == alphabet # NoAlphabet

st_alphabet_create ==
  /\ ~Held
  /\ \E n \in MaxNums : alphabet' = [max |-> n, table |-> << >>, dict |-> {}, eq |-> "label"]
  /\ given' = << >>
  /\ UNCHANGED saved

\* A label that is found is not added; a new one needs room in the table and a
\* signature the dictionary takes.  A dictionary that finds no memory for the node
\* leaves the number of labels, and with it the alphabet, as it was.
Appended(label) ==
  [alphabet EXCEPT !.table = Append(@, Kept[label]), !.dict = @ \cup {Node(label, Len(alphabet.table))}]
st_alphabet_add_label(label) ==
  /\ Held
  /\ st_alphabet_get_index(alphabet, label) < 0
  /\ Len(alphabet.table) < alphabet.max
  /\ get_sign[label] # NoSign
  /\ alphabet' = Appended(label) /\ given' = Append(given, label)
  /\ UNCHANGED saved

st_alphabet_save_bin ==
  /\ Held
  /\ saved' = [kind |-> "bin", table |-> alphabet.table, given |-> given]
  /\ UNCHANGED <<alphabet, given>>

st_alphabet_save_txt ==
  /\ Held
  /\ saved' = [kind |-> "txt", given |-> given,
               lines |-> [i \in DOMAIN alphabet.table |-> [label |-> ReadBack[alphabet.table[i]], id |-> i - 1]]]
  /\ UNCHANGED <<alphabet, given>>

WriteText ==
  \E lines \in TextFiles :
    /\ saved' = [kind |-> "txt", lines |-> lines,
                 given |-> IF WellFormed(lines) THEN Table(lines) ELSE << >>]
    /\ UNCHANGED <<alphabet, given>>

\* A load that fails gives no alphabet.
st_alphabet_load_from_txt_file ==
  /\ ~Held /\ saved.kind = "txt"
  /\ st_alphabet_load_txt(saved.lines)
  /\ alphabet' = Loaded(Table(saved.lines)) /\ given' = saved.given
  /\ UNCHANGED saved

st_alphabet_load_from_bin ==
  /\ ~Held /\ saved.kind = "bin"
  /\ st_alphabet_generate_index_dict(saved.table)
  /\ alphabet' = Loaded(saved.table) /\ given' = saved.given
  /\ UNCHANGED saved

\* The copy has the table, the nodes and the equality; the program goes on with it.
Copy(a) == [max |-> a.max, table |-> a.table, dict |-> a.dict, eq |-> a.eq]
st_alphabet_dup == Held /\ alphabet' = Copy(alphabet) /\ UNCHANGED <<saved, given>>

st_alphabet_destroy == Held /\ alphabet' = NoAlphabet /\ given' = << >> /\ UNCHANGED saved

AlphabetNext ==
  \/ st_alphabet_create
  \/ \E label \in Labels : st_alphabet_add_label(label)
  \/ st_alphabet_save_bin \/ st_alphabet_save_txt \/ WriteText
  \/ st_alphabet_load_from_txt_file \/ st_alphabet_load_from_bin
  \/ st_alphabet_dup \/ st_alphabet_destroy

-----------------------------------------------------------------------------
\* Labels that fit the table, and are one field of a line without blanks around it.
Plain(label) == Kept[label] = label /\ ReadBack[label] = label

\* A plain label is found under the number it was given, by the alphabet it was given
\* to and by every copy and reload of it, whatever the signatures of the others are;
\* and an alphabet that was not loaded from a file finds no other label under it.
FoundAsGiven ==
  Held => \A l \in Labels :
    LET i == st_alphabet_get_index(alphabet, l)
    IN /\ Plain(l) /\ l \in ToSet(given) => i >= 0
       /\ i >= 0 /\ alphabet.eq = "label" => At(given, i) = l
       /\ i >= 0 /\ Plain(l) /\ l \in ToSet(given) => At(given, i) = l /\ st_alphabet_get_label(alphabet, i) = l
=============================================================================
