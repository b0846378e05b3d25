SPECIFICATION Spec
INVARIANTS BuffersRight LookupsRight   HeapSound DevicesRight
