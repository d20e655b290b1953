SPECIFICATION Spec
CONSTANT Arguments <- MCArguments
INVARIANTS TypeOK Balanced ReadsItsArguments
