\* Keys of 0 .. 25 bytes under two seeds, hashed with signed and unsigned char.
CONSTANT OpsChecked = {"add", "multiply"}
SPECIFICATION Spec
INVARIANT PlatformIndependent
