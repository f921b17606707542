------------------------------ MODULE FoundBlock -----------------------------
(***************************************************************************)
(* check_found_block: did this delegate find the last block?  The daemon   *)
(* gives the block, of which the reserve bytes hold only a hash; a random  *)
(* network data node is asked for the reserve bytes themselves, until one  *)
(* answers; verify_data checks the answer; the hash of the reserve bytes   *)
(* is compared with the one in the block, and the address in them with     *)
(* that of the wallet.  An action is one call that leaves the process.     *)
(***************************************************************************)
EXTENDS Integers, Sequences

CONSTANTS Address,          \* public addresses of the delegates
          Delegate,         \* xcash_wallet_public_address
          Nodes,            \* NETWORK_DATA_NODES_AMOUNT
          Lists,            \* what network_data_nodes_list may hold: main fills
                            \* it with empty texts and nothing else does more
          SignatureLengths, \* the lengths of the signatures wallets make
          TextLengths,      \* the lengths of the texts that answers consist of
          Silent,           \* who may not answer: daemon, node, wallet
          Refusing,         \* who may answer with an error: daemon, wallet
          Leftovers,        \* what line 289 may find in block_height, which
                            \* has no value before it
          MaxBlocks,        \* bound: length of the chain
          MaxCalls          \* bound: calls of the function

NoAddress == "no address"

ASSUME FoundBlockAssumption ==
    /\ NoAddress \notin Address /\ Delegate \in Address
    /\ Nodes \in Nat \ {0, 1}
    /\ Lists \subseteq [0 .. Nodes - 1 -> Address \cup {NoAddress}]
    /\ SignatureLengths \subseteq Nat /\ TextLengths \subseteq Nat
    /\ Silent \subseteq {"daemon", "node", "wallet"}
    /\ Refusing \subseteq {"daemon", "wallet"} /\ Leftovers \subseteq Int
    /\ MaxBlocks \in Nat /\ MaxCalls \in Nat

VARIABLES
    chain,         \* external: the finder of each block, NoAddress for one
                   \* without reserve bytes
    list,          \* network_data_nodes_list
    calls,         \* how often the function was called so far
    pc,            \* its next call
    block_height,  \* the height asked for: the first block has height 0
    result,        \* the hash from the block, or what is taken for it
    count,         \* the index of the network data node
    answer,        \* data2, the answer of that node
    network_hash,  \* the hash that verify_data got from the daemon, if any
    outcome        \* what the last call returned, and at which check

vars == <<chain, list, calls, pc, block_height, result, count, answer,
          network_hash, outcome>>

Steps == {"idle", "count", "block", "ask", "hash", "wallet", "undefined"}
Checks == {"none", "daemon", "marker", "sender", "hash", "signature",
           "compare", "item", "end"}

(***************************************************************************)
(* Reserve bytes and block hashes are named by the number of their block,  *)
(* 0 for an empty text.  The texts that are compared are the beginning of  *)
(* the reserve bytes in the blob and the 64 bytes of a hash.               *)
(***************************************************************************)
Kinds == {"marker", "bytes"}
Text == [kind : Kinds, of : Nat]

(* Lines 321-322: 128 characters, from the beginning of the marker on. *)
FromMarker == [kind |-> "marker", of |-> 0]

(* Line 362: the hash is not put into hex. *)
Digest(bytes) == [kind |-> "bytes", of |-> bytes]

(* Line 363: 128 bytes are compared, the last 64 of data2 are 0. *)
SameData(text, hash) == text = hash

-----------------------------------------------------------------------------
(***************************************************************************)
(* sign_data, as the network data nodes run it: the text with the address  *)
(* and the hash of the last block, none if the node's daemon refused it,   *)
(* is signed.  Lines 148-158: the message is that text, of which the brace *)
(* and the four characters before it make room for 40 characters, the      *)
(* signature and 5 more.  Line 140 accepts a signature of any length if    *)
(* its prefix is right.                                                    *)
(***************************************************************************)
SignData(settings, bytes, address, signer, hash, text, length) ==
    [settings |-> settings, public_address |-> address,
     previous_block_hash |-> hash, reserve_bytes |-> bytes,
     signed_by |-> signer, text |-> text, length |-> length,
     size |-> text - 5 + 40 + length + 5]

(* A message without the fields: parse_json_data leaves each text empty. *)
OtherMessage(size) ==
    [settings |-> "none", public_address |-> NoAddress,
     previous_block_hash |-> 0, reserve_bytes |-> 0,
     signed_by |-> NoAddress, text |-> 0, length |-> 0, size |-> size]

Message == [settings : {"reserve_bytes", "none", "test"},
            public_address : Address \cup {NoAddress},
            previous_block_hash : Nat, reserve_bytes : Nat,
            signed_by : Address \cup {NoAddress}, text : Nat, length : Nat,
            size : Nat]

(***************************************************************************)
(* Whoever is at the address of the node may answer: with anybody's name,  *)
(* signed by another, with the setting of the tests.  Who answers knows    *)
(* the chain to its end, lacks its last block, or cannot say.              *)
(***************************************************************************)
Answer ==
    \/ \E size \in TextLengths : answer' = OtherMessage(size)
    \/ \E hash \in {0, Len(chain) - 1, Len(chain)}, bytes \in {0, block_height + 1},
          address \in Address, text \in TextLengths, length \in SignatureLengths,
          settings \in {"reserve_bytes", "test"}, signer \in Address :
          /\ bytes = 0 \/ hash = 0 \/ bytes <= hash
          /\ answer' = SignData(settings, bytes, address, signer, hash, text, length)

(* Lines 277-291: the sender is in the list; a message without an address  *)
(* is taken to be from an empty entry; the test setting needs no sender.   *)
FromListedNode(m) ==
    m.settings = "test" \/ \E i \in 0 .. Nodes - 1 : list[i] = m.public_address

(* Deviation, for the checks: any hash is good. *)
AnyHash(m, hash) == TRUE

(* Line 299. *)
SameHash(m, hash) == m.previous_block_hash = hash

XCASH_SIGN_DATA_LENGTH == 93

(* Line 195: what follows the cut. *)
MessageEnd == 134

(* Deviation, for the checks: one character less. *)
SignedTextCutShort(m) == m.size - MessageEnd

(* Lines 195 and 305-307: the message up to the cut, and a brace. *)
SignedText(m) == m.size - MessageEnd + 1

(* The wallet's answer to verify (lines 316-342): the text and the first   *)
(* 93 characters of the signature against the sender's address.            *)
Good(m) == /\ m.public_address \in Address
           /\ m.signed_by = m.public_address
           /\ SignedText(m) = m.text
           /\ m.length = XCASH_SIGN_DATA_LENGTH

-----------------------------------------------------------------------------
(* Lines 369-394, with parse_reserve_bytes_data: of the second item 128    *)
(* hex digits are taken, which are 64 of the 98 characters of an address:  *)
(* never all of the delegate's.  Reserve bytes that are empty have none.   *)
ComparedAddress(bytes) == [of |-> chain[bytes], complete |-> FALSE]

Finder(bytes) ==
    IF bytes = 0 THEN [result |-> 0, at |-> "item"]
    ELSE [result |-> IF ComparedAddress(bytes) = [of |-> Delegate, complete |-> TRUE]
                     THEN 2 ELSE 1,
          at |-> "end"]

(* Lines 352-394. *)
ReadAnswer(m) ==
    IF SameData(result, Digest(m.reserve_bytes)) THEN Finder(m.reserve_bytes)
    ELSE [result |-> 0, at |-> "compare"]

Failed(check) == [result |-> 0, at |-> check]

Return(value) ==
    /\ pc' = "idle"
    /\ outcome' = value

Continue(step) ==
    /\ pc' = step
    /\ UNCHANGED outcome

-----------------------------------------------------------------------------
Init ==
    /\ \E a \in Address : chain = << a >>
    /\ list \in Lists
    /\ calls = 0
    /\ pc = "idle"
    /\ block_height = 0
    /\ result = FromMarker
    /\ count = 0
    /\ answer = OtherMessage(0)
    /\ network_hash = 0
    /\ outcome = Failed("none")

NewBlock ==
    /\ Len(chain) < MaxBlocks
    /\ \E a \in Address \cup {NoAddress} : chain' = Append(chain, a)
    /\ UNCHANGED <<list, calls, pc, block_height, result, count, answer,
                   network_hash, outcome>>

(* Lines 233-272: new buffers. *)
CheckFoundBlock ==
    /\ pc = "idle"
    /\ calls < MaxCalls
    /\ calls' = calls + 1
    /\ count' = 0 /\ answer' = OtherMessage(0) /\ network_hash' = 0
    /\ Continue("count")
    /\ UNCHANGED <<chain, list, block_height, result>>

(***************************************************************************)
(* Lines 274-290.  An answer that has no count leaves the text of lines    *)
(* 288-289 empty, and block_height as it was.                              *)
(***************************************************************************)
GetBlockCount ==
    /\ pc = "count"
    /\ \/ Continue("block") /\ block_height' = Len(chain) - 1
       \/ /\ "daemon" \in Refusing
          /\ \E leftover \in Leftovers : block_height' = leftover - 1
          /\ Continue("block")
       \/ "daemon" \in Silent /\ Return(Failed("daemon")) /\ UNCHANGED block_height
    /\ UNCHANGED <<chain, list, calls, result, count, answer, network_hash>>

(* Deviation, for the checks: the marker is not looked for. *)
HasAnything(height) == TRUE

(* The blob has the marker; what the daemon refuses has not. *)
HasMarker(height) ==
    height + 1 \in DOMAIN chain /\ chain[height + 1] # NoAddress

(* Lines 294-328. *)
GetBlock ==
    /\ pc = "block"
    /\ \/ /\ HasMarker(block_height)
          /\ result' = FromMarker
          /\ Continue("ask")
       \/ /\ ~HasMarker(block_height) \/ "daemon" \in Refusing
          /\ Return(Failed("marker"))
          /\ UNCHANGED result
       \/ "daemon" \in Silent /\ Return(Failed("daemon")) /\ UNCHANGED result
    /\ UNCHANGED <<chain, list, calls, block_height, count, answer, network_hash>>

(* Deviation, for the checks: the next attempt takes the same node. *)
DrawnOnce == IF count = 0 THEN 1 .. Nodes ELSE {count}

(* Line 333: from 1 to the number of nodes, of which the last is beyond    *)
(* the list.                                                               *)
Drawn == 1 .. Nodes

(* Lines 336-344: the entry is empty, or the node does not answer. *)
AskInVain ==
    /\ pc = "ask"
    /\ count' \in Drawn \ {Nodes}
    /\ list[count'] = NoAddress \/ "node" \in Silent
    /\ UNCHANGED <<chain, list, calls, pc, block_height, result, answer,
                   network_hash, outcome>>

(* Line 336: the index is beyond the end of the list. *)
AskBeyond ==
    /\ pc = "ask"
    /\ Nodes \in Drawn
    /\ count' = Nodes
    /\ Continue("undefined")
    /\ UNCHANGED <<chain, list, calls, block_height, result, answer, network_hash>>

(* Lines 336-350 and verify_data up to its request to the daemon. *)
NodeAnswers(i) ==
    /\ pc = "ask"
    /\ i \in Drawn \ {Nodes}
    /\ count' = i
    /\ list[i] # NoAddress
    /\ Answer
    /\ \/ FromListedNode(answer') /\ Continue("hash")
       \/ ~FromListedNode(answer') /\ Return(Failed("sender"))
    /\ UNCHANGED <<chain, list, calls, block_height, result, network_hash>>

(***************************************************************************)
(* get_previous_block_hash and lines 294-303 of verify_data, which leave   *)
(* the hash empty if the answer has none; line 306 copies too much if the  *)
(* message is shorter than what it cuts off.                               *)
(***************************************************************************)
CompareHash ==
    /\ pc = "hash"
    /\ \/ /\ \/ network_hash' = Len(chain)
             \/ "daemon" \in Refusing /\ network_hash' = 0
          /\ \/ /\ SameHash(answer, network_hash')
                /\ Continue(IF answer.size < MessageEnd THEN "undefined"
                            ELSE "wallet")
             \/ ~SameHash(answer, network_hash') /\ Return(Failed("hash"))
       \/ /\ "daemon" \in Silent
          /\ Return(Failed("daemon"))
          /\ UNCHANGED network_hash
    /\ UNCHANGED <<chain, list, calls, block_height, result, count, answer>>

(* The rest of verify_data, and of check_found_block. *)
VerifySignature ==
    /\ pc = "wallet"
    /\ \/ Good(answer) /\ Return(ReadAnswer(answer))
       \/ ~Good(answer) /\ Return(Failed("signature"))
       \/ "wallet" \in Silent \cup Refusing /\ Return(Failed("daemon"))
    /\ UNCHANGED <<chain, list, calls, block_height, result, count, answer,
                   network_hash>>

Next ==
    \/ NewBlock \/ CheckFoundBlock \/ GetBlockCount \/ GetBlock
    \/ AskInVain \/ AskBeyond \/ \E i \in 1 .. Nodes : NodeAnswers(i)
    \/ CompareHash \/ VerifySignature

Spec == Init /\ [][Next]_vars

(* Requests of line 336 draw each node again and again, and a node that is *)
(* there answers in the end; the requests to daemon and wallet end.        *)
FairSpec ==
    /\ Spec
    /\ WF_vars(GetBlockCount) /\ WF_vars(GetBlock)
    /\ WF_vars(CompareHash) /\ WF_vars(VerifySignature)
    /\ \A i \in 1 .. Nodes : WF_vars(NodeAnswers(i))

-----------------------------------------------------------------------------
TypeOK ==
    /\ chain \in Seq(Address \cup {NoAddress}) /\ chain # << >>
    /\ list \in Lists
    /\ calls \in 0 .. MaxCalls
    /\ pc \in Steps
    /\ block_height \in Int
    /\ pc \in {"ask", "hash", "wallet"} => block_height + 1 \in DOMAIN chain
    /\ result \in Text
    /\ count \in 0 .. Nodes
    /\ answer \in Message
    /\ network_hash \in 0 .. Len(chain)
    /\ outcome \in [result : 0 .. 2, at : Checks]

(* Whose fields were compared with the block. *)
AnswerWasRead == outcome.at \in {"compare", "item", "end"} /\ pc = "idle"

(***************************************************************************)
(* network_security_functions.c:277-342: whoever answers and whatever      *)
(* comes in between, an answer is compared with the block only if its      *)
(* sender signed it, is listed or has the setting of the tests, and knew   *)
(* the block in question; a message without a hash only passes when the    *)
(* delegate's own daemon gives none.                                       *)
(***************************************************************************)
ReadAnswersKnowTheBlock ==
    AnswerWasRead =>
        /\ answer.signed_by = answer.public_address
        /\ answer.settings = "test"
              \/ answer.public_address \in {list[i] : i \in 0 .. Nodes - 1}
        /\ \/ answer.previous_block_hash > block_height
           \/ answer.previous_block_hash = 0 /\ network_hash = 0

(* network_security_functions.c:195 and 305-342, against lines 148-158:    *)
(* the text cut out of a message is the one that was signed, so what its   *)
(* sender signed is refused only if the signature has an unusual length.   *)
RefusedForLengthOnly ==
    pc = "idle" /\ outcome.at = "signature" =>
        \/ answer.signed_by # answer.public_address
        \/ answer.public_address = NoAddress
        \/ answer.length # XCASH_SIGN_DATA_LENGTH

(* network_daemon_functions.c:229 says of check_found_block: "Return: 0 if *)
(* an error has occured, 1 if you did not find the previous block on the   *)
(* network, 2 if you did": with a verified answer that has the reserve     *)
(* bytes of the block the function knows which.                            *)
VerifiedAnswersDecide ==
    AnswerWasRead /\ answer.reserve_bytes = block_height + 1
        => outcome.result \in {1, 2}

(* Some node that can be drawn is in the list. *)
ListedNodeThere == \E i \in 1 .. Nodes - 1 : list[i] # NoAddress

(* Lines 330-344: the attempts end when there is a node to answer; with    *)
(* the empty list of main they go on until line 336 reads beyond it.       *)
CallsEnd ==
    ListedNodeThere => [](pc # "idle" => <>(pc \in {"idle", "undefined"}))
==============================================================================
