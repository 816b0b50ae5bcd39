SPECIFICATION Spec
CONSTANT Half = 2
INVARIANT HiddenBitsStayHidden
