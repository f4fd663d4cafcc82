------------------------------ MODULE MCQuest ------------------------------
EXTENDS QuestTierManagerProps, TLC

CONSTANTS PromptsUpTo

\* Every prompt of at least one block, and of less than PromptsUpTo + 1.
LongPrompts == (1 .. PromptsUpTo) \X Rows
\* Prompts that end inside their first block.
ShortPrompts == {0} \X (Rows \ {0})
AllPrompts == LongPrompts \cup ShortPrompts
\* Prompts inside their first block, and two that fill the arena.
MixedPrompts == ShortPrompts \cup {<<3, 1>>, <<PromptsUpTo, 1>>}
Symmetry == Permutations(Slots) \cup Permutations(CpuSlots)
=============================================================================
